---- MODULE Spec2Model ----
(***************************************************************************)
(* Model of the connector records of the VCTP block (src/LVconnector.py)   *)
(* and of the pieces of src/readRSRC.py that use them.                     *)
(*                                                                         *)
(* A connector object is a record holding the attributes of the Python     *)
(* object; a method that mutates its object is an operator from the object *)
(* to the mutated object, whose field exc names the exception the call     *)
(* raised ("" when it returned).  Byte strings are sequences of 0..255.    *)
(* Python None is NoneB for byte strings and NoneInt for integers.  A      *)
(* Python int that is used arithmetically is a TLA+ integer; an opaque     *)
(* 32-bit field (prop1, flag1, ...) is kept as its big-endian digits       *)
(* without leading zeros, because it exceeds the integers TLC computes     *)
(* with.                                                                   *)
(***************************************************************************)
EXTENDS Integers, Sequences, FiniteSets, TLC

VARIABLES conn, ret

vars == <<conn, ret>>

-----------------------------------------------------------------------------
(* Bounds of the model *)

\* longest run of arbitrary bytes appended after a generated record body
MaxTail == 2
\* longest record (in bytes) an emit may produce before the model stops emitting
MaxRecord == 24
\* number of small U2p2 values tried besides the boundary values
MaxSmallU2p2 == 40

-----------------------------------------------------------------------------
(* Python values *)

NoneB == <<-1>>
NoneInt == -1
\* a byte string that could not be built: the call raised
ErrB == <<-2>>

Min(a, b) == IF a < b THEN a ELSE b
Max(a, b) == IF a > b THEN a ELSE b

Raised(buf) == \E k \in 1..Len(buf) : buf[k] < 0

\* int.from_bytes(b, byteorder='big', signed=False), for values TLC can hold
RECURSIVE IntFromBytes(_)
IntFromBytes(b) ==
    IF Len(b) = 0 THEN 0
    ELSE IntFromBytes(SubSeq(b, 1, Len(b) - 1)) * 256 + b[Len(b)]

\* int(n).to_bytes(w, byteorder='big'); OverflowError (or TypeError on None) is ErrB
ToBytes(n, w) ==
    LET lim == CASE w = 1 -> 256 [] w = 2 -> 65536 [] w = 3 -> 16777216
                 [] OTHER -> 2147483647
    IN  IF n < 0 \/ (w < 4 /\ n >= lim) THEN ErrB
        ELSE [k \in 1..w |->
                 CASE k = w     -> n % 256
                   [] k = w - 1 -> (n \div 256) % 256
                   [] k = w - 2 -> (n \div 65536) % 256
                   [] k = w - 3 -> (n \div 16777216) % 256
                   [] OTHER     -> 0]

\* int.from_bytes of a 32-bit field kept as digits: leading zeros dropped
RECURSIVE BigFromBytes(_)
BigFromBytes(b) ==
    IF Len(b) > 0 /\ b[1] = 0 THEN BigFromBytes(Tail(b)) ELSE b

\* int(d).to_bytes(w, byteorder='big') of a digit string
BigToBytes(d, w) ==
    IF d = NoneB \/ Len(d) > w THEN ErrB
    ELSE [k \in 1..w |-> IF k <= w - Len(d) THEN 0 ELSE d[k - (w - Len(d))]]

\* BytesIO.read(n) at offset pos: the bytes that are there, at most n;
\* all the rest when n is negative
Read(data, pos, n) ==
    IF n < 0 THEN SubSeq(data, pos + 1, Len(data))
    ELSE SubSeq(data, pos + 1, Min(pos + n, Len(data)))
\* BytesIO.tell() after that read
Adv(data, pos, n) == IF n < 0 THEN Len(data) ELSE Min(pos + n, Len(data))

-----------------------------------------------------------------------------
(* LVmisc: the U2p2 variable-width integer (spec section 4.1) *)

U2p2Sentinel == 65535

readVariableSizeFieldU2p2(data, pos) ==
    LET v == IntFromBytes(Read(data, pos, 2))
        p == Adv(data, pos, 2)
    IN  IF v = U2p2Sentinel
        THEN [val |-> IntFromBytes(Read(data, p, 4)), pos |-> Adv(data, p, 4)]
        ELSE [val |-> v, pos |-> p]

prepareVariableSizeFieldU2p2(val) ==
    IF val >= U2p2Sentinel
    THEN ToBytes(U2p2Sentinel, 2) \o ToBytes(val, 4)
    ELSE ToBytes(val, 2)

-----------------------------------------------------------------------------
(* Enumerations *)

HasLabel == 64

\* CONNECTOR_MAIN_TYPE: the values the enumeration has
MainTypeNames ==
    [v \in {0, 1, 2, 3, 4, 5, 6, 7, 8, 15, 256, -1, -2} |->
        CASE v = 0 -> "Number" [] v = 1 -> "Unit" [] v = 2 -> "Bool"
          [] v = 3 -> "Blob" [] v = 4 -> "Array" [] v = 5 -> "Cluster"
          [] v = 6 -> "Block" [] v = 7 -> "Ref" [] v = 8 -> "NumberPointer"
          [] v = 15 -> "Terminal" [] v = 256 -> "Void"
          [] v = -1 -> "Unknown" [] v = -2 -> "EnumValue"]

\* CONNECTOR_MAIN_TYPE(v): the member, or ValueError
CONNECTOR_MAIN_TYPE(v) ==
    IF v \in DOMAIN MainTypeNames THEN MainTypeNames[v] ELSE "ValueError"



-----------------------------------------------------------------------------
(* LVmisc: file versions.  A version is <<major, minor, bugfix, stage>>. *)

StageAlpha == 2
StageBeta == 3
StageRelease == 4

\* an argument left at its default None
NoArg == -1

\* isGreaterOrEqVersion(ver, major, minor, bugfix, stage): the components are
\* compared in order, up to the first argument that was not given
isGreaterOrEqVersion(ver, major, minor, bugfix, stage) ==
    LET want == <<major, minor, bugfix, stage>>
        given == {k \in 1..4 : \A j \in 1..k : want[j] # NoArg}
        differ == {k \in given : ver[k] # want[k]}
    IN  IF differ = {} THEN TRUE
        ELSE LET k == CHOOSE k \in differ : \A j \in differ : k <= j
             IN  ver[k] > want[k]

\* decodeVersion(0x11000000)
RecomputeVersion == <<11, 0, 0, 0>>

\* vi.getFileVersion() of a VI whose version was not set by the model
DefaultVersion == <<11, 0, 0, 0>>

-----------------------------------------------------------------------------
(* Construction *)

\* what client.nested holds when the client is an index into the catalog
NoNested == [cls |-> "NoneType"]

\* Array.dimensions before parseRSRCData or initWithXML created the attribute
DimUnset == <<[flags |-> -1, fixedSize |-> -1]>>

\* ConnectorObject.__init__ followed by the subclass's own __init__
NewObject(cls, idx, obj_flags, obj_type) ==
    [cls |-> cls, index |-> idx, oflags |-> obj_flags, otype |-> obj_type,
     clients |-> <<>>, label |-> NoneB, size |-> NoneInt, raw_data |-> NoneB,
     raw_data_updated |-> FALSE, parsed_data_updated |-> FALSE,
     exc |-> "",
     values |-> <<>>, padding1 |-> <<>>,
     prop1 |-> IF cls \in {"ConnectorObjectNumber", "ConnectorObjectBlob"}
               THEN NoneB ELSE <<>>,
     prop2 |-> 0,
     flag1 |-> <<>>, labels |-> <<>>,
     dimensions |-> IF cls = "ConnectorObjectArray" THEN DimUnset ELSE <<>>,
     clusterFmt |-> NoneInt,
     fflags |-> 0, pattern |-> 0, field6 |-> <<>>, field7 |-> <<>>, hasThrall |-> 0,
     dataVersion |-> NoneInt, rangeFormat |-> NoneInt, dataEncoding |-> NoneInt,
     dataEndianness |-> NoneInt, dataUnit |-> NoneInt, allocOv |-> NoneInt,
     leftovFlags |-> NoneInt, field1E |-> NoneInt, field20 |-> NoneB, ranges |-> <<>>,
     ver |-> DefaultVersion]

ConnectorClassByFullTypeOnly(obj_type) ==
    CASE obj_type = 0 -> "ConnectorObjectVoid"
      [] obj_type \in {48, 50, 51, 63, 96, 242} -> "ConnectorObjectBlob"
      [] obj_type = 52 -> "ConnectorObjectCString"
      [] obj_type = 53 -> "ConnectorObjectPasString"
      [] obj_type = 55 -> "ConnectorObjectTag"
      [] obj_type = 80 -> "ConnectorObjectCluster"
      [] obj_type = 83 -> "ConnectorObjectLVVariant"
      [] obj_type = 84 -> "ConnectorObjectMeasureData"
      [] obj_type \in {94, 95} -> "ConnectorObjectFixedPoint"
      [] obj_type \in {97, 98, 101, 131} -> "ConnectorObjectSingleContainer"
      [] obj_type \in {99, 100} -> "ConnectorObjectRepeatedBlock"
      [] obj_type = 128 -> "ConnectorObjectNumberPtr"
      [] obj_type = 240 -> "ConnectorObjectFunction"
      [] obj_type = 241 -> "ConnectorObjectTypeDef"
      [] OTHER -> "ConnectorObject"

\* the class newConnectorObject picks for a type tag
ConnectorClass(obj_type) ==
    LET byFull ==
          CASE obj_type = 0 -> "ConnectorObjectVoid"
            [] obj_type \in {48, 50, 51, 63, 96, 242} -> "ConnectorObjectBlob"
            [] obj_type = 52 -> "ConnectorObjectCString"
            [] obj_type = 53 -> "ConnectorObjectPasString"
            [] obj_type = 55 -> "ConnectorObjectTag"
            [] obj_type = 80 -> "ConnectorObjectCluster"
            [] obj_type = 83 -> "ConnectorObjectLVVariant"
            [] obj_type = 84 -> "ConnectorObjectMeasureData"
            [] obj_type \in {94, 95} -> "ConnectorObjectFixedPoint"
            [] obj_type \in {97, 98, 101, 131} -> "ConnectorObjectSingleContainer"
            [] obj_type \in {99, 100} -> "ConnectorObjectRepeatedBlock"
            [] obj_type = 128 -> "ConnectorObjectNumberPtr"
            [] obj_type = 240 -> "ConnectorObjectFunction"
            [] obj_type = 241 -> "ConnectorObjectTypeDef"
            [] OTHER -> "None"
        obj_main_type == obj_type \div 16
        byMain ==
          CASE obj_main_type \in {0, 1} -> "ConnectorObjectNumber"
            [] obj_main_type = 2 -> "ConnectorObjectBool"
            [] obj_main_type = 4 -> "ConnectorObjectArray"
            [] obj_main_type = 7 -> "ConnectorObjectRef"
            [] OTHER -> "ConnectorObject"
    IN  IF byFull # "None" THEN byFull ELSE byMain

newConnectorObject(idx, obj_flags, obj_type) ==
    NewObject(ConnectorClass(obj_type), idx, obj_flags, obj_type)

\* the class whose methods a class inherits unchanged
MethodClass(cls) ==
    IF cls \in {"ConnectorObjectBool", "ConnectorObjectLVVariant",
                "ConnectorObjectCString", "ConnectorObjectPasString",
                "ConnectorObjectNumberPtr"}
    THEN "ConnectorObjectVoid" ELSE cls

-----------------------------------------------------------------------------
(* ConnectorObject: header, label codec, dirty markers *)

\* bldata is read from its current offset pos
initWithRSRC(self, bldata, pos, obj_len) ==
    [self EXCEPT !.size = obj_len,
                 !.raw_data = Read(bldata, pos, obj_len),
                 !.raw_data_updated = TRUE]

parseRSRCDataHeader(data, pos) ==
    LET l == readVariableSizeFieldU2p2(data, pos)
    IN  [obj_len |-> l.val,
         obj_flags |-> IntFromBytes(Read(data, l.pos, 1)),
         obj_type |-> IntFromBytes(Read(data, Adv(data, l.pos, 1), 1)),
         pos |-> Adv(data, l.pos, 2)]

\* (bt in b'\r\n\t') or (bt >= 32)
LabelByte(bt) == bt \in {13, 10, 9} \/ bt >= 32

\* i counts from 0, as in the source
validLabelLength(whole_data, i) ==
    LET wd == IF whole_data[Len(whole_data)] = 0
              THEN SubSeq(whole_data, 1, Len(whole_data) - 1) ELSE whole_data
        label_len == IntFromBytes(SubSeq(wd, i + 1, Min(i + 1, Len(wd))))
    IN  IF Len(wd) - i = label_len + 1
           /\ \A k \in (i + 2)..Len(wd) : LabelByte(wd[k])
        THEN label_len ELSE 0

\* the first i of range(max(len-256,0), len) with validLabelLength > 0, or -1
LabelSearch(whole_data) ==
    LET n == Len(whole_data)
        found == {i \in Max(n - 256, 0)..(n - 1) : validLabelLength(whole_data, i) > 0}
    IN  IF found = {} THEN -1
        ELSE CHOOSE i \in found : \A j \in found : i <= j

parseRSRCDataFinish(self, data, pos) ==
    LET whole_data == SubSeq(data, pos + 1, Len(data))
        i == LabelSearch(whole_data)
        label_len == validLabelLength(whole_data, i)
        label == IF i >= 0 THEN SubSeq(whole_data, i + 2, i + label_len + 1)
                 ELSE IF self.label = NoneB THEN <<>> ELSE self.label
    IN  IF (self.oflags \div HasLabel) % 2 = 1
        THEN IF self.label # NoneB /\ Len(whole_data) = 0
             THEN \* "elif i > 0" reads i, which the empty loop never bound
                  [self EXCEPT !.exc = "UnboundLocalError"]
             ELSE [self EXCEPT !.label = label, !.raw_data_updated = FALSE]
        ELSE [self EXCEPT !.raw_data_updated = FALSE]

needParseData(self) == self.raw_data_updated \/ self.parsed_data_updated

parseXMLData(self) == [self EXCEPT !.parsed_data_updated = FALSE]

ConnectorObject_parseRSRCData(self, data) ==
    LET h == parseRSRCDataHeader(data, 0)
    IN  parseRSRCDataFinish([self EXCEPT !.otype = h.obj_type, !.oflags = h.obj_flags],
                            data, h.pos)

ConnectorObject_prepareRSRCData(self) ==
    LET data_buf == IF self.raw_data # NoneB /\ Len(self.raw_data) > 0
                    THEN SubSeq(self.raw_data, 5, Len(self.raw_data)) ELSE <<>>
        i == LabelSearch(data_buf)
    IN  IF (self.oflags \div HasLabel) % 2 = 1 /\ i >= 0
        THEN SubSeq(data_buf, 1, i) ELSE data_buf

ConnectorObject_expectedRSRCSize(self) ==
    IF self.raw_data # NoneB THEN Len(self.raw_data) - 4 ELSE 0

\* the object after prepareRSRCDataFinish: oflags follows label, label cut to 255
prepareRSRCDataFinishObj(self) ==
    IF self.label # NoneB
    THEN [self EXCEPT !.oflags = IF (self.oflags \div HasLabel) % 2 = 1
                                 THEN self.oflags ELSE self.oflags + HasLabel,
                      !.label = SubSeq(self.label, 1, Min(Len(self.label), 255))]
    ELSE [self EXCEPT !.oflags = IF (self.oflags \div HasLabel) % 2 = 1
                                 THEN self.oflags - HasLabel ELSE self.oflags]

prepareRSRCDataFinishNoPadding(self) ==
    LET o == prepareRSRCDataFinishObj(self)
    IN  IF o.label # NoneB THEN ToBytes(Len(o.label), 1) \o o.label ELSE <<>>

\* the bytes prepareRSRCDataFinish returns
prepareRSRCDataFinish(self) ==
    LET o == prepareRSRCDataFinishObj(self)
        data_buf == IF o.label # NoneB
                    THEN ToBytes(Len(o.label), 1) \o o.label ELSE <<>>
    IN  IF Len(data_buf) % 2 > 0 THEN data_buf \o <<0>> ELSE data_buf

\* the "label_len" part every expectedRSRCSize adds
LabelSize(self) ==
    IF self.label # NoneB
    THEN LET label_len == 1 + Len(self.label)
         IN  IF label_len % 2 > 0 THEN label_len + 2 - (label_len % 2) ELSE label_len
    ELSE 0

setData(self, data_buf, incomplete) ==
    [self EXCEPT !.raw_data = data_buf,
                 !.size = Len(data_buf),
                 !.raw_data_updated = IF incomplete THEN self.raw_data_updated ELSE TRUE]

ConnectorObject_checkSanity(self) == TRUE

mainType(self) ==
    IF self.otype = 0 THEN "Void"
    ELSE IF self.otype < 0 THEN CONNECTOR_MAIN_TYPE(self.otype)
    ELSE CONNECTOR_MAIN_TYPE(self.otype \div 16)

fullType(self) == self.otype

\* "True", "False", or the exception mainType() raised
isNumber(self) ==
    IF mainType(self) = "ValueError" THEN "ValueError"
    ELSE IF mainType(self) = "Number" \/ mainType(self) = "Unit" \/ fullType(self) = 95
    THEN "True" ELSE "False"

-----------------------------------------------------------------------------
(* ConnectorObjectVoid (and Bool, LVVariant, CString, PasString, NumberPtr) *)

ConnectorObjectVoid_parseRSRCData(self, data) ==
    LET h == parseRSRCDataHeader(data, 0)
    IN  parseRSRCDataFinish([self EXCEPT !.otype = h.obj_type, !.oflags = h.obj_flags],
                            data, h.pos)

ConnectorObjectVoid_prepareRSRCData(self) == <<>>

ConnectorObjectVoid_expectedRSRCSize(self) == 4 + LabelSize(self)

-----------------------------------------------------------------------------
(* ConnectorObjectNumber *)

isEnum(self) == fullType(self) \in {21, 22, 23}

isPhys(self) == fullType(self) \in {25, 26, 27, 28, 29, 30}

\* the loop of parseRSRCEnumAttr: count entries of (u8 label_len, label)
RECURSIVE EnumEntries(_, _, _)
EnumEntries(data, pos, count) ==
    IF count = 0 THEN [values |-> <<>>, pos |-> pos, whole_len |-> 0]
    ELSE LET label_len == IntFromBytes(Read(data, pos, 1))
             p1 == Adv(data, pos, 1)
             value == [label |-> Read(data, p1, label_len),
                       intval1 |-> NoneInt, intval2 |-> NoneInt]
             rest == EnumEntries(data, Adv(data, p1, label_len), count - 1)
         IN  [values |-> <<value>> \o rest.values, pos |-> rest.pos,
              whole_len |-> label_len + 1 + rest.whole_len]

parseRSRCEnumAttr(data, pos) ==
    LET count == IntFromBytes(Read(data, pos, 2))
        e == EnumEntries(data, Adv(data, pos, 2), count)
    IN  IF (e.whole_len % 2) # 0
        THEN [values |-> e.values, padding1 |-> Read(data, e.pos, 1),
              pos |-> Adv(data, e.pos, 1)]
        ELSE [values |-> e.values, padding1 |-> <<>>, pos |-> e.pos]

\* the loop of parseRSRCUnitsAttr; value.label, a display string, is not kept
RECURSIVE UnitEntries(_, _, _)
UnitEntries(data, pos, count) ==
    IF count = 0 THEN [values |-> <<>>, pos |-> pos]
    ELSE LET value == [label |-> NoneB,
                       intval1 |-> IntFromBytes(Read(data, pos, 2)),
                       intval2 |-> IntFromBytes(Read(data, Adv(data, pos, 2), 2))]
             rest == UnitEntries(data, Adv(data, pos, 4), count - 1)
         IN  [values |-> <<value>> \o rest.values, pos |-> rest.pos]

parseRSRCUnitsAttr(data, pos) ==
    UnitEntries(data, Adv(data, pos, 2), IntFromBytes(Read(data, pos, 2)))

ConnectorObjectNumber_parseRSRCData(self, data) ==
    LET h == parseRSRCDataHeader(data, 0)
        s0 == [self EXCEPT !.otype = h.obj_type, !.oflags = h.obj_flags]
        e == IF isEnum(s0) THEN parseRSRCEnumAttr(data, h.pos)
             ELSE [values |-> <<>>, padding1 |-> <<>>, pos |-> h.pos]
        u == IF isPhys(s0) THEN parseRSRCUnitsAttr(data, e.pos)
             ELSE [values |-> e.values, pos |-> e.pos]
    IN  parseRSRCDataFinish(
            [s0 EXCEPT !.padding1 = e.padding1, !.values = u.values,
                       !.prop1 = BigFromBytes(Read(data, u.pos, 1))],
            data, Adv(data, u.pos, 1))

RECURSIVE EnumBytes(_)
EnumBytes(values) ==
    IF Len(values) = 0 THEN <<>>
    ELSE ToBytes(Len(values[1].label), 1) \o values[1].label \o EnumBytes(Tail(values))

\* no pad byte after a table of odd length
prepareRSRCEnumAttrNoPad(self) ==
    ToBytes(Len(self.values), 2) \o EnumBytes(self.values)

prepareRSRCEnumAttr(self) ==
    LET data_buf == ToBytes(Len(self.values), 2) \o EnumBytes(self.values)
    IN  IF Len(data_buf) % 2 > 0 THEN data_buf \o <<0>> ELSE data_buf

RECURSIVE UnitBytes(_)
UnitBytes(values) ==
    IF Len(values) = 0 THEN <<>>
    ELSE ToBytes(values[1].intval1, 2) \o ToBytes(values[1].intval2, 2)
         \o UnitBytes(Tail(values))

prepareRSRCUnitsAttr(self) == ToBytes(Len(self.values), 2) \o UnitBytes(self.values)

ConnectorObjectNumber_prepareRSRCData(self) ==
    (IF isEnum(self) THEN prepareRSRCEnumAttr(self) ELSE <<>>)
    \o (IF isPhys(self) THEN prepareRSRCUnitsAttr(self) ELSE <<>>)
    \o BigToBytes(self.prop1, 1)

ConnectorObjectNumber_expectedRSRCSize(self) == 4 + 1 + LabelSize(self)

ConnectorObjectNumber_checkSanity(self, exp_whole_len) ==
    /\ self.prop1 = <<>>
    /\ (isEnum(self) \/ isPhys(self)) => Len(self.values) >= 1
    /\ ~(Len(self.padding1) > 0 /\ self.padding1 # <<0>>)
    /\ Len(self.raw_data) = exp_whole_len

-----------------------------------------------------------------------------
(* ConnectorObjectBlob *)

Blob_prop1_expected == <<255, 255, 255, 255>>

ConnectorObjectBlob_parseRSRCData(self, data) ==
    LET h == parseRSRCDataHeader(data, 0)
    IN  parseRSRCDataFinish(
            [self EXCEPT !.otype = h.obj_type, !.oflags = h.obj_flags,
                         !.prop1 = BigFromBytes(Read(data, h.pos, 4))],
            data, Adv(data, h.pos, 4))

ConnectorObjectBlob_prepareRSRCData(self) == BigToBytes(self.prop1, 4)

ConnectorObjectBlob_expectedRSRCSize(self) == 4 + 4 + LabelSize(self)

ConnectorObjectBlob_checkSanity(self, exp_whole_len) ==
    /\ self.prop1 = Blob_prop1_expected
    /\ Len(self.raw_data) = exp_whole_len

-----------------------------------------------------------------------------
(* ConnectorObjectArray *)

\* dim.flags = word >> 24 and dim.fixedSize = word & 0x00FFFFFF of the u32 read
RECURSIVE ArrayDims(_, _, _)
ArrayDims(data, pos, ndimensions) ==
    IF ndimensions = 0 THEN <<>>
    ELSE LET b == Read(data, pos, 4)
             dim == IF Len(b) = 4
                    THEN [flags |-> b[1], fixedSize |-> IntFromBytes(Tail(b))]
                    ELSE [flags |-> 0, fixedSize |-> IntFromBytes(b)]
         IN  <<dim>> \o ArrayDims(data, Adv(data, pos, 4), ndimensions - 1)

ConnectorObjectArray_parseRSRCData(self, data) ==
    LET h == parseRSRCDataHeader(data, 0)
        ndimensions == IntFromBytes(Read(data, h.pos, 2))
        p1 == Adv(data, h.pos, 2)
        p2 == Adv(data, p1, 4 * ndimensions)
        cli == readVariableSizeFieldU2p2(data, p2)
    IN  parseRSRCDataFinish(
            [self EXCEPT !.otype = h.obj_type, !.oflags = h.obj_flags,
                         !.dimensions = ArrayDims(data, p1, ndimensions),
                         !.clients = <<[index |-> cli.val, flags |-> 0,
                                        nested |-> NoNested]>>],
            data, cli.pos)

\* (dim.flags << 24) | dim.fixedSize as 4 bytes, for flags of 8 and sizes of 24 bits
RECURSIVE DimBytes(_)
DimBytes(dimensions) ==
    IF Len(dimensions) = 0 THEN <<>>
    ELSE (IF dimensions[1].flags < 0 THEN ErrB
          ELSE ToBytes(dimensions[1].flags, 1) \o ToBytes(dimensions[1].fixedSize, 3))
         \o DimBytes(Tail(dimensions))

\* int(client.index).to_bytes(2, byteorder='big') for each client
RECURSIVE ClientIndexBytes(_)
ClientIndexBytes(clients) ==
    IF Len(clients) = 0 THEN <<>>
    ELSE ToBytes(clients[1].index, 2) \o ClientIndexBytes(Tail(clients))

ConnectorObjectArray_prepareRSRCData(self) ==
    IF self.dimensions = DimUnset THEN ErrB
    ELSE ToBytes(Len(self.dimensions), 2) \o DimBytes(self.dimensions)
         \o ClientIndexBytes(self.clients)

\* sum of ( 2 if (client.index <= 0x7fff) else 4 ) over the clients
RECURSIVE ClientIndexSizes(_)
ClientIndexSizes(clients) ==
    IF Len(clients) = 0 THEN 0
    ELSE (IF clients[1].index <= 32767 THEN 2 ELSE 4) + ClientIndexSizes(Tail(clients))

ConnectorObjectArray_expectedRSRCSize(self) ==
    2 + 4 * Len(self.dimensions) + ClientIndexSizes(self.clients) + LabelSize(self)

\* "IndexError" when dimensions[0] does not exist
ConnectorObjectArray_checkSanity(self) ==
    IF Len(self.dimensions) = 0 THEN [val |-> FALSE, exc |-> "IndexError"]
    ELSE [val |-> /\ Len(self.dimensions) <= 64
                  /\ Len(self.clients) = 1
                  /\ (self.dimensions[1].flags \div 128) % 2 = 1
                  /\ \A k \in 1..Len(self.clients) :
                        self.index = -1 \/ self.clients[k].index < self.index,
          exc |-> ""]

-----------------------------------------------------------------------------
(* ConnectorObjectRepeatedBlock, ConnectorObjectCluster, ConnectorObjectMeasureData *)

ConnectorObjectRepeatedBlock_parseRSRCData(self, data) ==
    LET h == parseRSRCDataHeader(data, 0)
    IN  parseRSRCDataFinish(
            [self EXCEPT !.otype = h.obj_type, !.oflags = h.obj_flags,
                         !.prop1 = BigFromBytes(Read(data, h.pos, 4)),
                         !.prop2 = IntFromBytes(Read(data, Adv(data, h.pos, 4), 2))],
            data, Adv(data, h.pos, 6))

ConnectorObjectRepeatedBlock_prepareRSRCData(self) ==
    BigToBytes(self.prop1, 4) \o ToBytes(self.prop2, 2)

ConnectorObjectRepeatedBlock_expectedRSRCSize(self) == 4 + 4 + 2 + LabelSize(self)

RECURSIVE ClusterClients(_, _, _)
ClusterClients(data, pos, count) ==
    IF count = 0 THEN <<>>
    ELSE <<[index |-> IntFromBytes(Read(data, pos, 2)), flags |-> 0,
            nested |-> NoNested]>>
         \o ClusterClients(data, Adv(data, pos, 2), count - 1)

ConnectorObjectCluster_parseRSRCData(self, data) ==
    LET h == parseRSRCDataHeader(data, 0)
        count == IntFromBytes(Read(data, h.pos, 2))
        p1 == Adv(data, h.pos, 2)
    IN  parseRSRCDataFinish(
            [self EXCEPT !.otype = h.obj_type, !.oflags = h.obj_flags,
                         !.clients = ClusterClients(data, p1, count)],
            data, Adv(data, p1, 2 * count))

ConnectorObjectCluster_prepareRSRCData(self) ==
    ToBytes(Len(self.clients), 2) \o ClientIndexBytes(self.clients)

ConnectorObjectCluster_expectedRSRCSize(self) ==
    4 + 2 + 2 * Len(self.clients) + LabelSize(self)

ConnectorObjectCluster_checkSanity(self, exp_whole_len) ==
    /\ Len(self.clients) <= 500
    /\ Len(self.raw_data) = exp_whole_len

ConnectorObjectMeasureData_parseRSRCData(self, data) ==
    LET h == parseRSRCDataHeader(data, 0)
    IN  parseRSRCDataFinish(
            [self EXCEPT !.otype = h.obj_type, !.oflags = h.obj_flags,
                         !.clusterFmt = IntFromBytes(Read(data, h.pos, 2))],
            data, Adv(data, h.pos, 2))

ConnectorObjectMeasureData_prepareRSRCData(self) == ToBytes(self.clusterFmt, 2)

ConnectorObjectMeasureData_expectedRSRCSize(self) == 4 + 2 + LabelSize(self)

ConnectorObjectMeasureData_checkSanity(self, exp_whole_len) ==
    /\ self.clusterFmt <= 127
    /\ Len(self.raw_data) = exp_whole_len

-----------------------------------------------------------------------------
(* ConnectorObjectSingleContainer *)

\* len(VCTP.content): the records of the catalog the object belongs to
CatalogSize == 2

ConnectorObjectSingleContainer_parseRSRCData(self, data) ==
    LET h == parseRSRCDataHeader(data, 0)
        cli == readVariableSizeFieldU2p2(data, h.pos)
    IN  parseRSRCDataFinish(
            [self EXCEPT !.otype = h.obj_type, !.oflags = h.obj_flags,
                         !.clients = <<[index |-> cli.val, flags |-> 0,
                                        nested |-> NoNested]>>],
            data, cli.pos)

ConnectorObjectSingleContainer_prepareRSRCData(self) ==
    IF Len(self.clients) = 0 THEN <<>>
    ELSE prepareVariableSizeFieldU2p2(self.clients[1].index)

ConnectorObjectSingleContainer_expectedRSRCSize(self) ==
    IF Len(self.clients) = 0 THEN 0
    ELSE IF self.clients[1].index <= 32767 THEN 2 ELSE 4

ConnectorObjectSingleContainer_checkSanity(self, exp_whole_len) ==
    /\ Len(self.clients) = 1
    /\ \A k \in 1..Len(self.clients) :
          IF self.clients[k].index = -1
          THEN self.clients[k].nested # NoNested
          ELSE self.clients[k].index < CatalogSize
    /\ Len(self.raw_data) = exp_whole_len

-----------------------------------------------------------------------------
(* ConnectorObjectFunction.  A client is [index, flags, thrallSources]; flags
   is kept as big-endian digits, a thrall source as an integer. *)

FunctionClient(idx) ==
    [index |-> idx, flags |-> <<>>, thrallSources |-> <<>>, nested |-> NoNested]

\* "for i in range(count): self.clients[i].index = readVariableSizeFieldU2p2(bldata)"
RECURSIVE FunctionIndices(_, _, _)
FunctionIndices(data, pos, count) ==
    IF count = 0 THEN [clients |-> <<>>, pos |-> pos]
    ELSE LET cli == readVariableSizeFieldU2p2(data, pos)
             rest == FunctionIndices(data, cli.pos, count - 1)
         IN  [clients |-> <<FunctionClient(cli.val)>> \o rest.clients, pos |-> rest.pos]

\* "for i in range(count): self.clients[i].flags = int.from_bytes(bldata.read(w))"
RECURSIVE FunctionFlags(_, _, _, _)
FunctionFlags(clients, data, pos, w) ==
    IF Len(clients) = 0 THEN [clients |-> <<>>, pos |-> pos]
    ELSE LET rest == FunctionFlags(Tail(clients), data, Adv(data, pos, w), w)
         IN  [clients |-> <<[clients[1] EXCEPT !.flags = BigFromBytes(Read(data, pos, w))]>>
                          \o rest.clients,
              pos |-> rest.pos]

\* the "while True" loop reading one client's thrall sources up to a 0 byte
RECURSIVE ThrallSources(_, _, _)
ThrallSources(data, pos, ver) ==
    LET k == IntFromBytes(Read(data, pos, 1))
    IN  IF k = 0 THEN [sources |-> <<>>, pos |-> Adv(data, pos, 1)]
        ELSE LET rest == ThrallSources(data, Adv(data, pos, 1), ver)
                 src == IF isGreaterOrEqVersion(ver, 8, 2, 0, StageBeta)
                        THEN k - 1 ELSE k
             IN  [sources |-> <<src>> \o rest.sources, pos |-> rest.pos]

RECURSIVE FunctionThralls(_, _, _, _)
FunctionThralls(clients, data, pos, ver) ==
    IF Len(clients) = 0 THEN [clients |-> <<>>, pos |-> pos]
    ELSE LET t == ThrallSources(data, pos, ver)
             rest == FunctionThralls(Tail(clients), data, t.pos, ver)
         IN  [clients |-> <<[clients[1] EXCEPT !.thrallSources = t.sources]>>
                          \o rest.clients,
              pos |-> rest.pos]

WithHasThrall(t, hasThrall) ==
    [clients |-> t.clients, pos |-> t.pos, hasThrall |-> hasThrall]

\* the has_thrall part of parseRSRCData
FunctionThrallPart(self, clients, data, pos) ==
    IF isGreaterOrEqVersion(self.ver, 8, 0, 0, StageBeta)
    THEN LET hasThrall == IntFromBytes(Read(data, pos, 2))
             p == Adv(data, pos, 2)
         IN  IF hasThrall # 0
             THEN WithHasThrall(FunctionThralls(clients, data, p, self.ver), hasThrall)
             ELSE [clients |-> clients, pos |-> p, hasThrall |-> hasThrall]
    ELSE [clients |-> clients, pos |-> pos, hasThrall |-> 0]

\* field6, field7 and the special last client of parseRSRCData
FunctionTailPart(self, fflags, clients, data, pos) ==
    LET has67 == (fflags \div 2048) % 2 = 1
        p1 == IF has67 THEN Adv(data, pos, 8) ELSE pos
        spec == (fflags \div 32768) % 2 = 1
        cli == readVariableSizeFieldU2p2(data, p1)
    IN  [field6 |-> IF has67 THEN BigFromBytes(Read(data, pos, 4)) ELSE self.field6,
         field7 |-> IF has67 THEN BigFromBytes(Read(data, Adv(data, pos, 4), 4))
                    ELSE self.field7,
         clients |-> IF spec THEN clients \o <<FunctionClient(cli.val)>> ELSE clients,
         pos |-> IF spec THEN cli.pos ELSE p1]

FunctionParsed(self, h, fflags, pattern, th, tl, data) ==
    parseRSRCDataFinish(
        [self EXCEPT !.otype = h.obj_type, !.oflags = h.obj_flags,
                     !.fflags = fflags, !.pattern = pattern,
                     !.hasThrall = th.hasThrall,
                     !.field6 = tl.field6, !.field7 = tl.field7,
                     !.clients = tl.clients],
        data, tl.pos)

FunctionParseTail(self, h, fflags, pattern, th, data) ==
    FunctionParsed(self, h, fflags, pattern, th,
                   FunctionTailPart(self, fflags, th.clients, data, th.pos), data)

FunctionParseFlags(self, h, idx, data) ==
    LET fflags == IntFromBytes(Read(data, idx.pos, 2))
        pattern == IntFromBytes(Read(data, Adv(data, idx.pos, 2), 2))
        w == IF isGreaterOrEqVersion(self.ver, 10, 0, 0, StageAlpha) THEN 4 ELSE 2
        fl == FunctionFlags(idx.clients, data, Adv(data, idx.pos, 4), w)
    IN  FunctionParseTail(self, h, fflags, pattern,
                          FunctionThrallPart(self, fl.clients, data, fl.pos), data)

FunctionParseIndices(self, h, count, data) ==
    FunctionParseFlags(self, h, FunctionIndices(data, count.pos, count.val), data)

ConnectorObjectFunction_parseRSRCData(self, data) ==
    LET h == parseRSRCDataHeader(data, 0)
    IN  FunctionParseIndices(self, h, readVariableSizeFieldU2p2(data, h.pos), data)

\* prepareVariableSizeFieldU2p2(client.index) for each counted client
RECURSIVE FunctionIndexBytes(_)
FunctionIndexBytes(clients) ==
    IF Len(clients) = 0 THEN <<>>
    ELSE prepareVariableSizeFieldU2p2(clients[1].index) \o FunctionIndexBytes(Tail(clients))

\* a writer without the version gate: u16 flags always
RECURSIVE FunctionFlagBytesNarrow(_, _)
FunctionFlagBytesNarrow(clients, w) ==
    IF Len(clients) = 0 THEN <<>>
    ELSE BigToBytes(clients[1].flags, 2) \o FunctionFlagBytesNarrow(Tail(clients), w)

\* int(client.flags).to_bytes(w, byteorder='big') for each counted client
RECURSIVE FunctionFlagBytes(_, _)
FunctionFlagBytes(clients, w) ==
    IF Len(clients) = 0 THEN <<>>
    ELSE BigToBytes(clients[1].flags, w) \o FunctionFlagBytes(Tail(clients), w)

\* a writer that forgets the offset of 1
RECURSIVE ThrallSourceBytesNoOffset(_, _)
ThrallSourceBytesNoOffset(sources, ver) ==
    IF Len(sources) = 0 THEN <<>>
    ELSE ToBytes(sources[1], 1) \o ThrallSourceBytesNoOffset(Tail(sources), ver)

\* one client's thrall sources, each as one byte, without the terminator
RECURSIVE ThrallSourceBytes(_, _)
ThrallSourceBytes(sources, ver) ==
    IF Len(sources) = 0 THEN <<>>
    ELSE ToBytes(IF isGreaterOrEqVersion(ver, 8, 2, 0, StageBeta)
                 THEN sources[1] + 1 ELSE sources[1], 1)
         \o ThrallSourceBytes(Tail(sources), ver)

RECURSIVE FunctionThrallBytes(_, _)
FunctionThrallBytes(clients, ver) ==
    IF Len(clients) = 0 THEN <<>>
    ELSE ThrallSourceBytes(clients[1].thrallSources, ver) \o ToBytes(0, 1)
         \o FunctionThrallBytes(Tail(clients), ver)

\* the version prepareRSRCData works with
PrepareVersion(self, avoid_recompute) ==
    IF avoid_recompute THEN RecomputeVersion ELSE self.ver

\* the special client's index written before field6 and field7
ConnectorObjectFunction_prepareRSRCDataSpecialFirst(self, avoid_recompute) ==
    LET ver == PrepareVersion(self, avoid_recompute)
        special == (self.fflags \div 32768) % 2 = 1
        clients == IF special THEN SubSeq(self.clients, 1, Len(self.clients) - 1)
                   ELSE self.clients
        w == IF isGreaterOrEqVersion(ver, 10, 0, 0, StageAlpha) THEN 4 ELSE 2
    IN  IF special /\ Len(self.clients) = 0 THEN ErrB
        ELSE prepareVariableSizeFieldU2p2(Len(clients))
             \o FunctionIndexBytes(clients)
             \o ToBytes(self.fflags, 2) \o ToBytes(self.pattern, 2)
             \o FunctionFlagBytes(clients, w)
             \o (IF isGreaterOrEqVersion(ver, 8, 0, 0, StageBeta)
                 THEN ToBytes(self.hasThrall, 2)
                      \o (IF self.hasThrall # 0 THEN FunctionThrallBytes(clients, ver)
                          ELSE <<>>)
                 ELSE <<>>)
             \o (IF special
                 THEN prepareVariableSizeFieldU2p2(self.clients[Len(self.clients)].index)
                 ELSE <<>>)
             \o (IF (self.fflags \div 2048) % 2 = 1
                 THEN BigToBytes(self.field6, 4) \o BigToBytes(self.field7, 4)
                 ELSE <<>>)
ConnectorObjectFunction_prepareRSRCData(self, avoid_recompute) ==
    LET ver == PrepareVersion(self, avoid_recompute)
        special == (self.fflags \div 32768) % 2 = 1
        clients == IF special THEN SubSeq(self.clients, 1, Len(self.clients) - 1)
                   ELSE self.clients
        w == IF isGreaterOrEqVersion(ver, 10, 0, 0, StageAlpha) THEN 4 ELSE 2
    IN  IF special /\ Len(self.clients) = 0 THEN ErrB  \* pop from empty list
        ELSE prepareVariableSizeFieldU2p2(Len(clients))
             \o FunctionIndexBytes(clients)
             \o ToBytes(self.fflags, 2) \o ToBytes(self.pattern, 2)
             \o FunctionFlagBytes(clients, w)
             \o (IF isGreaterOrEqVersion(ver, 8, 0, 0, StageBeta)
                 THEN ToBytes(self.hasThrall, 2)
                      \o (IF self.hasThrall # 0 THEN FunctionThrallBytes(clients, ver)
                          ELSE <<>>)
                 ELSE <<>>)
             \o (IF (self.fflags \div 2048) % 2 = 1
                 THEN BigToBytes(self.field6, 4) \o BigToBytes(self.field7, 4)
                 ELSE <<>>)
             \o (IF special
                 THEN prepareVariableSizeFieldU2p2(self.clients[Len(self.clients)].index)
                 ELSE <<>>)

ConnectorObjectFunction_expectedRSRCSize(self) ==
    4 + 2 + 2 * Len(self.clients) + 2 + 2
    + (IF isGreaterOrEqVersion(self.ver, 8, 0, NoArg, NoArg)
       THEN 2 + 4 * Len(self.clients) ELSE 2 * Len(self.clients))
    + LabelSize(self)

\* VCTP is the catalog of CatalogSize records; a client with index -1 has no
\* attribute "nested" in this class
ConnectorObjectFunction_checkSanity(self, exp_whole_len) ==
    IF \E k \in 1..Len(self.clients) : self.clients[k].index = -1
    THEN [val |-> FALSE, exc |-> "AttributeError"]
    ELSE [val |-> /\ Len(self.clients) <= 125
                  /\ \A k \in 1..Len(self.clients) : self.clients[k].index < CatalogSize
                  /\ Len(self.raw_data) = exp_whole_len,
          exc |-> ""]

-----------------------------------------------------------------------------
(* ConnectorObjectRef *)

\* ref_obj_sane is what ref_obj.checkSanity() returned, TRUE when ref_obj is None
ConnectorObjectRef_checkSanity(self, ref_obj_sane) ==
    /\ ref_obj_sane
    /\ \A k \in 1..Len(self.clients) :
          self.index = -1 \/ self.clients[k].index < self.index

-----------------------------------------------------------------------------
(* ConnectorObjectFixedPoint.  The attributes dataVersion .. field20 exist only
   after parseRSRCData or initWithXML set them: NoneInt (NoneB) before.  A
   property of a range is <<>> when None and <<v>> when the integer v. *)

\* a & b and a | b of non-negative integers
RECURSIVE BitAnd(_, _)
BitAnd(a, b) ==
    IF a = 0 \/ b = 0 THEN 0
    ELSE (a % 2) * (b % 2) + 2 * BitAnd(a \div 2, b \div 2)

RECURSIVE BitOr(_, _)
BitOr(a, b) ==
    IF a = 0 THEN b ELSE IF b = 0 THEN a
    ELSE Max(a % 2, b % 2) + 2 * BitOr(a \div 2, b \div 2)

\* int.from_bytes(b, byteorder='big', signed=True) of 4 bytes
SignedFromBytes(b) ==
    IF Len(b) = 0 THEN 0
    ELSE IF b[1] < 128 THEN IntFromBytes(b)
    ELSE -IntFromBytes([k \in 1..Len(b) |-> 255 - b[k]]) - 1

\* struct.unpack('>d', b): sign, biased exponent and fraction of the double
unpack_d(b) ==
    [sign |-> b[1] \div 128,
     exponent |-> (b[1] % 128) * 16 + b[2] \div 16,
     fraction |-> <<b[2] % 16>> \o SubSeq(b, 3, 8)]

\* struct.pack('>d', v)
pack_d(v) ==
    <<v.sign * 128 + v.exponent \div 16, (v.exponent % 16) * 16 + v.fraction[1]>>
    \o Tail(v.fraction)

\* the fields unpacked from field1C
ConnectorObjectFixedPoint_unpackField1C(self, field1C) ==
    [self EXCEPT !.dataVersion = BitAnd(field1C, 15),
                 !.rangeFormat = BitAnd(field1C \div 16, 3),
                 !.dataEncoding = BitAnd(field1C \div 64, 1),
                 !.dataEndianness = BitAnd(field1C \div 128, 1),
                 !.dataUnit = BitAnd(field1C \div 256, 7),
                 !.allocOv = BitAnd(field1C \div 2048, 1),
                 !.leftovFlags = BitAnd(field1C \div 256, 246)]

\* field1C packed from the fields
ConnectorObjectFixedPoint_packField1C(self) ==
    BitOr(BitAnd(self.dataVersion, 15),
    BitOr(BitAnd(self.rangeFormat, 3) * 16,
    BitOr(BitAnd(self.dataEncoding, 1) * 64,
    BitOr(BitAnd(self.dataEndianness, 1) * 128,
    BitOr(BitAnd(self.dataUnit, 7) * 256,
    BitOr(BitAnd(self.allocOv, 1) * 2048,
          BitAnd(self.leftovFlags, 246) * 256))))))

\* whether a range holds prop1, prop2, prop3 before its value
RangeHasProps(self) ==
    self.rangeFormat = 1 /\ (self.field1E > 64 \/ self.dataVersion > 0)

\* the loop "for i, rang in enumerate(ranges)" from range number i on: exc is
\* UnboundLocalError when neither branch bound valtup, struct.error when fewer
\* than 8 bytes are left for the value
RECURSIVE FixedPointRanges(_, _, _, _)
FixedPointRanges(self, data, pos, i) ==
    IF i = 3 THEN [ranges |-> <<>>, pos |-> pos, exc |-> ""]
    ELSE IF self.rangeFormat \notin {0, 1}
    THEN [ranges |-> <<>>, pos |-> pos, exc |-> "UnboundLocalError"]
    ELSE LET props == RangeHasProps(self)
             vpos == IF props THEN Adv(data, pos, 8) ELSE pos
             raw == Read(data, vpos, 8)
             rest == FixedPointRanges(self, data, Adv(data, vpos, 8), i + 1)
             rang == [prop1 |-> IF props THEN <<IntFromBytes(Read(data, pos, 2))>>
                                ELSE <<>>,
                      prop2 |-> IF props
                                THEN <<IntFromBytes(Read(data, Adv(data, pos, 2), 2))>>
                                ELSE <<>>,
                      prop3 |-> IF props
                                THEN <<SignedFromBytes(Read(data, Adv(data, pos, 4), 4))>>
                                ELSE <<>>,
                      value |-> IF Len(raw) = 8 THEN unpack_d(raw) ELSE NoneB]
         IN  IF Len(raw) # 8 THEN [ranges |-> <<>>, pos |-> vpos, exc |-> "struct.error"]
             ELSE [ranges |-> <<rang>> \o rest.ranges, pos |-> rest.pos, exc |-> rest.exc]

ConnectorObjectFixedPoint_parseRSRCData(self, data) ==
    LET h == parseRSRCDataHeader(data, 0)
        field1C == IntFromBytes(Read(data, h.pos, 2))
        o == [ConnectorObjectFixedPoint_unpackField1C(
                  [self EXCEPT !.otype = h.obj_type, !.oflags = h.obj_flags], field1C)
                 EXCEPT !.field1E = IntFromBytes(Read(data, Adv(data, h.pos, 2), 2)),
                        !.field20 = BigFromBytes(Read(data, Adv(data, h.pos, 4), 4))]
        r == FixedPointRanges(o, data, Adv(data, h.pos, 8), 0)
    IN  IF r.exc # "" THEN [o EXCEPT !.exc = r.exc]
        ELSE parseRSRCDataFinish([o EXCEPT !.ranges = r.ranges], data, r.pos)

\* int(prop).to_bytes(w, byteorder='big') of a property: TypeError on None
PropBytes(prop, w) == IF prop = <<>> THEN ErrB ELSE ToBytes(prop[1], w)

\* the loop "for i, rang in enumerate(self.ranges)" of prepareRSRCData
RECURSIVE FixedPointRangeBytes(_, _)
FixedPointRangeBytes(self, ranges) ==
    IF Len(ranges) = 0 THEN <<>>
    ELSE LET rang == ranges[1]
             one == IF self.rangeFormat = 0 THEN pack_d(rang.value)
                    ELSE IF self.rangeFormat = 1
                    THEN IF RangeHasProps(self)
                         THEN LET p == PropBytes(rang.prop1, 2) \o PropBytes(rang.prop2, 2)
                                       \o PropBytes(rang.prop3, 4)
                              IN  IF Raised(p) THEN ErrB ELSE p \o pack_d(rang.value)
                         ELSE pack_d(rang.value)
                    ELSE <<>>
         IN  one \o FixedPointRangeBytes(self, Tail(ranges))

ConnectorObjectFixedPoint_prepareRSRCData(self) ==
    IF self.dataVersion = NoneInt THEN ErrB
    ELSE ToBytes(ConnectorObjectFixedPoint_packField1C(self), 2)
         \o ToBytes(self.field1E, 2) \o BigToBytes(self.field20, 4)
         \o FixedPointRangeBytes(self, self.ranges)

ConnectorObjectFixedPoint_expectedRSRCSize(self) == 4 + 2 + 2 + LabelSize(self)

-----------------------------------------------------------------------------
(* Method dispatch; the recursion goes through a TypeDef's nested connector *)

RECURSIVE parseData(_)
RECURSIVE prepareRSRCData(_)
RECURSIVE prepareRSRCDataObj(_)
RECURSIVE expectedRSRCSize(_)

-----------------------------------------------------------------------------
(* ConnectorObjectTypeDef *)

\* the loop over the label table: count entries of (u8 label_len, label)
RECURSIVE TypeDefLabels(_, _, _)
TypeDefLabels(data, pos, count) ==
    IF count = 0 THEN [labels |-> <<>>, pos |-> pos]
    ELSE LET label_len == IntFromBytes(Read(data, pos, 1))
             p1 == Adv(data, pos, 1)
             rest == TypeDefLabels(data, Adv(data, p1, label_len), count - 1)
         IN  [labels |-> <<Read(data, p1, label_len)>> \o rest.labels, pos |-> rest.pos]

NestedLengthBias == 4

parseRSRCNestedConnector(data, pos) ==
    LET h == parseRSRCDataHeader(data, pos)
        obj == newConnectorObject(-1, h.obj_flags, h.obj_type)
    IN  [obj |-> initWithRSRC(obj, data, pos, h.obj_len - NestedLengthBias),
         obj_len |-> h.obj_len]

ConnectorObjectTypeDef_parseRSRCData(self, data) ==
    LET h == parseRSRCDataHeader(data, 0)
        count == IntFromBytes(Read(data, Adv(data, h.pos, 4), 4))
        t == TypeDefLabels(data, Adv(data, h.pos, 8), count)
        n == parseRSRCNestedConnector(data, t.pos)
    IN  parseRSRCDataFinish(
            [self EXCEPT !.otype = h.obj_type, !.oflags = h.obj_flags,
                         !.flag1 = BigFromBytes(Read(data, h.pos, 4)),
                         !.labels = t.labels,
                         !.clients = <<[index |-> n.obj.index, flags |-> 0,
                                        nested |-> n.obj]>>],
            data, Adv(data, t.pos, n.obj_len - NestedLengthBias))

RECURSIVE LabelTableBytes(_)
LabelTableBytes(labels) ==
    IF Len(labels) = 0 THEN <<>>
    ELSE ToBytes(Len(labels[1]), 1) \o labels[1] \o LabelTableBytes(Tail(labels))

\* the loop "for client in self.clients" of ConnectorObjectTypeDef.prepareRSRCData
RECURSIVE NestedClientBytes(_)
NestedClientBytes(clients) ==
    IF Len(clients) = 0 THEN <<>>
    ELSE LET nested == clients[1].nested
             cli_data_buf == IF nested = NoNested THEN ErrB
                             ELSE prepareRSRCData(nested)
                                  \o prepareRSRCDataFinish(prepareRSRCDataObj(nested))
             after == prepareRSRCDataFinishObj(prepareRSRCDataObj(nested))
             cli_data_head == ToBytes(Len(cli_data_buf) + 4 + NestedLengthBias, 2)
                              \o ToBytes(after.oflags, 1) \o ToBytes(after.otype, 1)
         IN  (IF Raised(cli_data_buf) THEN ErrB ELSE cli_data_head \o cli_data_buf)
             \o NestedClientBytes(Tail(clients))

ConnectorObjectTypeDef_prepareRSRCData(self) ==
    BigToBytes(self.flag1, 4) \o ToBytes(Len(self.labels), 4)
    \o LabelTableBytes(self.labels) \o NestedClientBytes(self.clients)

\* the nested connectors after their prepareRSRCData and prepareRSRCDataFinish ran
ConnectorObjectTypeDef_prepareRSRCDataObj(self) ==
    [self EXCEPT !.clients =
        [k \in 1..Len(self.clients) |->
            IF self.clients[k].nested = NoNested THEN self.clients[k]
            ELSE [self.clients[k] EXCEPT !.nested =
                     prepareRSRCDataFinishObj(prepareRSRCDataObj(self.clients[k].nested))]]]

RECURSIVE NestedExpectedSizes(_)
NestedExpectedSizes(clients) ==
    IF Len(clients) = 0 THEN 0
    ELSE expectedRSRCSize(clients[1].nested) + NestedExpectedSizes(Tail(clients))

RECURSIVE LabelTableSize(_)
LabelTableSize(labels) ==
    IF Len(labels) = 0 THEN 0 ELSE 1 + Len(labels[1]) + LabelTableSize(Tail(labels))

ConnectorObjectTypeDef_expectedRSRCSize(self) ==
    4 + 4 + LabelTableSize(self.labels) + NestedExpectedSizes(self.clients)
    + LabelSize(self)

ConnectorObjectTypeDef_checkSanity(self, exp_whole_len) ==
    /\ Len(self.clients) = 1
    /\ \A k \in 1..Len(self.clients) : self.clients[k].index = -1
    /\ Len(self.raw_data) = exp_whole_len

-----------------------------------------------------------------------------
(* The methods, by class *)

parseRSRCData(self, data) ==
    LET c == MethodClass(self.cls)
    IN  CASE c = "ConnectorObject" -> ConnectorObject_parseRSRCData(self, data)
          [] c = "ConnectorObjectVoid" -> ConnectorObjectVoid_parseRSRCData(self, data)
          [] c = "ConnectorObjectNumber" -> ConnectorObjectNumber_parseRSRCData(self, data)
          [] c = "ConnectorObjectBlob" -> ConnectorObjectBlob_parseRSRCData(self, data)
          [] c = "ConnectorObjectArray" -> ConnectorObjectArray_parseRSRCData(self, data)
          [] c = "ConnectorObjectRepeatedBlock" ->
                ConnectorObjectRepeatedBlock_parseRSRCData(self, data)
          [] c = "ConnectorObjectCluster" -> ConnectorObjectCluster_parseRSRCData(self, data)
          [] c = "ConnectorObjectMeasureData" ->
                ConnectorObjectMeasureData_parseRSRCData(self, data)
          [] c = "ConnectorObjectSingleContainer" ->
                ConnectorObjectSingleContainer_parseRSRCData(self, data)
          [] c = "ConnectorObjectTypeDef" -> ConnectorObjectTypeDef_parseRSRCData(self, data)
          [] c = "ConnectorObjectFunction" ->
                ConnectorObjectFunction_parseRSRCData(self, data)
          [] c = "ConnectorObjectFixedPoint" ->
                ConnectorObjectFixedPoint_parseRSRCData(self, data)

prepareRSRCData(self) ==
    LET c == MethodClass(self.cls)
    IN  CASE c = "ConnectorObject" -> ConnectorObject_prepareRSRCData(self)
          [] c = "ConnectorObjectVoid" -> ConnectorObjectVoid_prepareRSRCData(self)
          [] c = "ConnectorObjectNumber" -> ConnectorObjectNumber_prepareRSRCData(self)
          [] c = "ConnectorObjectBlob" -> ConnectorObjectBlob_prepareRSRCData(self)
          [] c = "ConnectorObjectArray" -> ConnectorObjectArray_prepareRSRCData(self)
          [] c = "ConnectorObjectRepeatedBlock" ->
                ConnectorObjectRepeatedBlock_prepareRSRCData(self)
          [] c = "ConnectorObjectCluster" -> ConnectorObjectCluster_prepareRSRCData(self)
          [] c = "ConnectorObjectMeasureData" ->
                ConnectorObjectMeasureData_prepareRSRCData(self)
          [] c = "ConnectorObjectSingleContainer" ->
                ConnectorObjectSingleContainer_prepareRSRCData(self)
          [] c = "ConnectorObjectTypeDef" -> ConnectorObjectTypeDef_prepareRSRCData(self)
          [] c = "ConnectorObjectFunction" ->
                ConnectorObjectFunction_prepareRSRCData(self, FALSE)
          [] c = "ConnectorObjectFixedPoint" ->
                ConnectorObjectFixedPoint_prepareRSRCData(self)

\* prepareRSRCData(avoid_recompute=...): only a Function's bytes depend on the
\* argument (a TypeDef passes it on to its nested connector, which is never a
\* Function here)
prepareRSRCDataFor(self, avoid_recompute) ==
    IF self.cls = "ConnectorObjectFunction"
    THEN ConnectorObjectFunction_prepareRSRCData(self, avoid_recompute)
    ELSE prepareRSRCData(self)

\* the object after prepareRSRCData ran: only a TypeDef's call changes anything
prepareRSRCDataObj(self) ==
    IF self.cls = "ConnectorObjectTypeDef" /\ ~Raised(prepareRSRCData(self))
    THEN ConnectorObjectTypeDef_prepareRSRCDataObj(self) ELSE self

expectedRSRCSize(self) ==
    LET c == MethodClass(self.cls)
    IN  CASE c = "ConnectorObject" -> ConnectorObject_expectedRSRCSize(self)
          [] c = "ConnectorObjectVoid" -> ConnectorObjectVoid_expectedRSRCSize(self)
          [] c = "ConnectorObjectNumber" -> ConnectorObjectNumber_expectedRSRCSize(self)
          [] c = "ConnectorObjectBlob" -> ConnectorObjectBlob_expectedRSRCSize(self)
          [] c = "ConnectorObjectArray" -> ConnectorObjectArray_expectedRSRCSize(self)
          [] c = "ConnectorObjectRepeatedBlock" ->
                ConnectorObjectRepeatedBlock_expectedRSRCSize(self)
          [] c = "ConnectorObjectCluster" -> ConnectorObjectCluster_expectedRSRCSize(self)
          [] c = "ConnectorObjectMeasureData" ->
                ConnectorObjectMeasureData_expectedRSRCSize(self)
          [] c = "ConnectorObjectSingleContainer" ->
                ConnectorObjectSingleContainer_expectedRSRCSize(self)
          [] c = "ConnectorObjectTypeDef" -> ConnectorObjectTypeDef_expectedRSRCSize(self)
          [] c = "ConnectorObjectFunction" -> ConnectorObjectFunction_expectedRSRCSize(self)
          [] c = "ConnectorObjectFixedPoint" ->
                ConnectorObjectFixedPoint_expectedRSRCSize(self)

\* checkSanity(): [val |-> what it returns, exc |-> the exception it raised or ""]
checkSanity(self) ==
    LET c == MethodClass(self.cls)
        size_ok == Len(self.raw_data) = expectedRSRCSize(self)
        r(b) == [val |-> b, exc |-> ""]
    IN  CASE c = "ConnectorObject" -> r(ConnectorObject_checkSanity(self))
          [] c = "ConnectorObjectVoid" -> r(size_ok)
          [] c = "ConnectorObjectNumber" ->
                r(ConnectorObjectNumber_checkSanity(self, expectedRSRCSize(self)))
          [] c = "ConnectorObjectBlob" ->
                r(ConnectorObjectBlob_checkSanity(self, expectedRSRCSize(self)))
          [] c = "ConnectorObjectArray" -> ConnectorObjectArray_checkSanity(self)
          [] c = "ConnectorObjectRepeatedBlock" -> r(size_ok)
          [] c = "ConnectorObjectCluster" ->
                r(ConnectorObjectCluster_checkSanity(self, expectedRSRCSize(self)))
          [] c = "ConnectorObjectMeasureData" ->
                r(ConnectorObjectMeasureData_checkSanity(self, expectedRSRCSize(self)))
          [] c = "ConnectorObjectSingleContainer" ->
                r(ConnectorObjectSingleContainer_checkSanity(self, expectedRSRCSize(self)))
          [] c = "ConnectorObjectTypeDef" ->
                r(ConnectorObjectTypeDef_checkSanity(self, expectedRSRCSize(self)))
          [] c = "ConnectorObjectFunction" ->
                ConnectorObjectFunction_checkSanity(self, expectedRSRCSize(self))
          [] c = "ConnectorObjectFixedPoint" -> r(size_ok)

\* the loop "for i, client in enumerate(self.clients)" of parseData
RECURSIVE ParseNested(_)
ParseNested(clients) ==
    IF Len(clients) = 0 THEN <<>>
    ELSE IF clients[1].index # -1 THEN <<clients[1]>> \o ParseNested(Tail(clients))
    ELSE <<[clients[1] EXCEPT !.nested = parseData(clients[1].nested)]>>
         \o ParseNested(Tail(clients))

\* an exception of a nested parseData() is the exception of the outer one
WithParsedClients(o, cl) ==
    IF \A k \in 1..Len(cl) : cl[k].index # -1 \/ cl[k].nested.exc = ""
    THEN [o EXCEPT !.clients = cl]
    ELSE [o EXCEPT !.clients = cl,
                   !.exc = cl[CHOOSE k \in 1..Len(cl) :
                                 cl[k].index = -1 /\ cl[k].nested.exc # ""].nested.exc]

ParseClients(o) ==
    IF o.exc # "" THEN o ELSE WithParsedClients(o, ParseNested(o.clients))

parseData(self) ==
    IF ~needParseData(self) THEN self
    ELSE IF self.raw_data_updated THEN ParseClients(parseRSRCData(self, self.raw_data))
    ELSE ParseClients(parseXMLData(self))

\* exceptions of updateData come from building the bytes, before any attribute changes
updateDataWrongLength(self, avoid_recompute) ==
    IF avoid_recompute /\ self.raw_data_updated THEN self
    ELSE LET body == prepareRSRCDataFor(self, avoid_recompute)
             o1 == prepareRSRCDataObj(self)
             o2 == prepareRSRCDataFinishObj(o1)
             data_buf == body \o prepareRSRCDataFinish(o1)
             data_head == ToBytes(Len(data_buf), 2)
                          \o ToBytes(o2.oflags, 1) \o ToBytes(o2.otype, 1)
         IN  IF Raised(body) THEN [self EXCEPT !.exc = "Error"]
             ELSE IF Raised(data_head) THEN [o2 EXCEPT !.exc = "OverflowError"]
             ELSE setData(o2, data_head \o data_buf, avoid_recompute)

updateData(self, avoid_recompute) ==
    IF avoid_recompute /\ self.raw_data_updated THEN self
    ELSE LET body == prepareRSRCDataFor(self, avoid_recompute)
             o1 == prepareRSRCDataObj(self)
             o2 == prepareRSRCDataFinishObj(o1)
             data_buf == body \o prepareRSRCDataFinish(o1)
             data_head == ToBytes(Len(data_buf) + 4, 2)
                          \o ToBytes(o2.oflags, 1) \o ToBytes(o2.otype, 1)
         IN  IF Raised(body) THEN [self EXCEPT !.exc = "Error"]
             ELSE IF Raised(data_head) THEN [o2 EXCEPT !.exc = "OverflowError"]
             ELSE setData(o2, data_head \o data_buf, avoid_recompute)

-----------------------------------------------------------------------------
(* Loading from XML.  An element is a record of its attributes and children,
   the numbers and byte strings already converted from their text; Unexpected
   says that it has a child whose tag no variant defines. *)

Elem(fmt, label, file) ==
    [Format |-> fmt, Label |-> label, File |-> file, Index |-> 0, Type |-> 0,
     Flags |-> 0, Prop1 |-> <<>>, Prop2 |-> 0, ClusterFmt |-> 0, Flag1 |-> <<>>,
     Labels |-> <<>>, Value |-> <<>>, Dimension |-> <<>>, Client |-> <<>>,
     FuncFlags |-> 0, Pattern |-> 0, HasThrall |-> 0, Field6 |-> <<>>, Field7 |-> <<>>,
     Unexpected |-> FALSE]

initWithXMLInlineStart(self, conn_elem) ==
    [self EXCEPT !.label = conn_elem.Label, !.parsed_data_updated = TRUE]

\* ConnectorObject.initWithXML, the branch Format="bin"
initWithXMLBin(self, conn_elem) ==
    LET o == [self EXCEPT !.label = IF (self.oflags \div HasLabel) % 2 = 1
                                    THEN <<>> ELSE NoneB]
        data_buf == conn_elem.File
        data_head == ToBytes(Len(data_buf) + 4, 2)
                     \o ToBytes(o.oflags, 1) \o ToBytes(o.otype, 1)
    IN  [setData(o, data_head \o data_buf, FALSE) EXCEPT !.parsed_data_updated = FALSE]

RECURSIVE initWithXML(_, _)

initWithXMLNestedConnector(conn_subelem) ==
    [index |-> -1, flags |-> 0,
     nested |-> initWithXML(newConnectorObject(-1, conn_subelem.Flags, conn_subelem.Type),
                            conn_subelem)]

\* a slot of self.clients that "extend([None] * ...)" made and no element filled
NoneClient == [index |-> NoneInt, flags |-> <<>>, thrallSources |-> <<>>,
               nested |-> NoNested, none |-> TRUE]

\* "self.clients[i] = client" for each Client subelement in turn, the list grown
\* with None up to i
RECURSIVE PlaceClients(_, _)
PlaceClients(clients, subelems) ==
    IF Len(subelems) = 0 THEN clients
    ELSE LET i == subelems[1].Index
             client == [index |-> subelems[1].ConnectorIndex,
                        flags |-> subelems[1].Flags,
                        thrallSources |-> subelems[1].ThrallSources,
                        nested |-> NoNested]
             grown == IF i >= Len(clients)
                      THEN clients \o [k \in 1..(i - Len(clients) + 1) |-> NoneClient]
                      ELSE clients
         IN  PlaceClients([grown EXCEPT ![i + 1] = client], Tail(subelems))

\* ConnectorObjectFunction.initWithXML between initWithXMLInlineStart and
\* updateData; a None left in self.clients makes updateData raise
ConnectorObjectFunction_initWithXMLProps(self, conn_elem) ==
    LET clients == PlaceClients(<<>>, conn_elem.Client)
    IN  [self EXCEPT !.fflags = conn_elem.FuncFlags,
                     !.pattern = conn_elem.Pattern,
                     !.hasThrall = conn_elem.HasThrall,
                     !.field6 = conn_elem.Field6,
                     !.field7 = conn_elem.Field7,
                     !.clients = clients,
                     !.exc = IF \E k \in 1..Len(clients) : clients[k] = NoneClient
                             THEN "AttributeError" ELSE ""]

\* the properties each class reads between initWithXMLInlineStart and updateData
initWithXMLInlineProps(self, conn_elem) ==
    LET c == MethodClass(self.cls)
    IN  CASE c = "ConnectorObjectNumber" ->
                [self EXCEPT !.prop1 = conn_elem.Prop1, !.padding1 = <<>>,
                             !.values = IF isEnum(self) \/ isPhys(self)
                                        THEN conn_elem.Value ELSE <<>>]
          [] c = "ConnectorObjectBlob" -> [self EXCEPT !.prop1 = conn_elem.Prop1]
          [] c = "ConnectorObjectRepeatedBlock" ->
                [self EXCEPT !.prop1 = conn_elem.Prop1, !.prop2 = conn_elem.Prop2]
          [] c = "ConnectorObjectMeasureData" ->
                [self EXCEPT !.clusterFmt = conn_elem.ClusterFmt]
          [] c \in {"ConnectorObjectCluster", "ConnectorObjectSingleContainer"} ->
                [self EXCEPT !.clients = conn_elem.Client]
          [] c = "ConnectorObjectArray" ->
                [self EXCEPT !.dimensions = conn_elem.Dimension,
                             !.clients = conn_elem.Client]
          [] c = "ConnectorObjectTypeDef" ->
                LET cl == [k \in 1..Len(conn_elem.Client) |->
                              initWithXMLNestedConnector(conn_elem.Client[k])]
                    bad == {k \in 1..Len(cl) : cl[k].nested.exc # ""}
                IN  [self EXCEPT !.flag1 = conn_elem.Flag1,
                                 !.labels = conn_elem.Labels,
                                 !.clients = cl,
                                 !.exc = IF \E k \in 1..Len(cl) : conn_elem.Client[k].Index # 0
                                         THEN "AttributeError"
                                         ELSE IF bad # {}
                                         THEN cl[CHOOSE k \in bad : TRUE].nested.exc
                                         ELSE ""]
          [] c = "ConnectorObjectFunction" ->
                ConnectorObjectFunction_initWithXMLProps(self, conn_elem)
          [] OTHER -> self

\* the classes whose initWithXML goes through the children of the element and
\* raises AttributeError("Connector contains unexpected tag") in the else branch
RaisesOnUnexpectedTag(self) ==
    LET c == MethodClass(self.cls)
    IN  \/ c \in {"ConnectorObjectCluster", "ConnectorObjectSingleContainer",
                  "ConnectorObjectArray", "ConnectorObjectTypeDef",
                  "ConnectorObjectFunction"}
        \/ c = "ConnectorObjectNumber" /\ (isEnum(self) \/ isPhys(self))

initWithXML(self, conn_elem) ==
    IF conn_elem.Format = "inline"
    THEN LET o == initWithXMLInlineProps(initWithXMLInlineStart(self, conn_elem), conn_elem)
         IN  IF o.exc # "" THEN o
             ELSE IF conn_elem.Unexpected /\ RaisesOnUnexpectedTag(self)
             THEN [o EXCEPT !.exc = "AttributeError"]
             ELSE updateData(o, TRUE)
    ELSE IF conn_elem.Format = "bin" THEN initWithXMLBin(self, conn_elem)
    ELSE [self EXCEPT !.exc = "NotImplementedError"]

-----------------------------------------------------------------------------
(* Exporting to XML.  Text is a sequence of character codes; an attribute that
   is not set is NoneB.  Format stays one of "inline", "bin". *)

\* "{:d}".format(n), str(n)
RECURSIVE FormatD(_)
FormatD(n) ==
    IF n < 10 THEN <<48 + n>> ELSE FormatD(n \div 10) \o <<48 + (n % 10)>>

HexChar(v) == IF v < 10 THEN 48 + v ELSE 55 + v

\* "{:X}".format(n)
RECURSIVE FormatX(_)
FormatX(n) ==
    IF n < 16 THEN <<HexChar(n)>> ELSE FormatX(n \div 16) \o <<HexChar(n % 16)>>

RECURSIVE BigHexPairs(_)
BigHexPairs(d) ==
    IF Len(d) = 0 THEN <<>>
    ELSE <<HexChar(d[1] \div 16), HexChar(d[1] % 16)>> \o BigHexPairs(Tail(d))

\* "{:X}".format(n) of a number kept as digits
BigFormatX(d) ==
    IF Len(d) = 0 THEN <<48>>
    ELSE IF d[1] < 16 THEN Tail(BigHexPairs(d)) ELSE BigHexPairs(d)

\* the minimum widths of "{:04X}" and "{:3d}"
PadLeft(s, w, c) == [k \in 1..(w - Len(s)) |-> c] \o s

\* "0x{:X}" and "0x{:04X}"
Format0xX(n) == <<48, 120>> \o FormatX(n)
Format0x04X(n) == <<48, 120>> \o PadLeft(FormatX(n), 4, 48)
BigFormat0xX(d) == <<48, 120>> \o BigFormatX(d)
BigFormat0x04X(d) == <<48, 120>> \o PadLeft(BigFormatX(d), 4, 48)

\* strlist += " {:3d}".format(val) for each thrall source
RECURSIVE ThrallText(_)
ThrallText(sources) ==
    IF Len(sources) = 0 THEN <<>>
    ELSE <<32>> \o PadLeft(FormatD(sources[1]), 3, 32) \o ThrallText(Tail(sources))

\* bytes.decode and str.encode with the text encoding of the VI, Latin-1: the
\* character of code b for the byte b
decode(b) == [k \in 1..Len(b) |-> b[k]]
encode(s) == IF \E k \in 1..Len(s) : s[k] > 255 THEN ErrB ELSE [k \in 1..Len(s) |-> s[k]]

\* an element without attributes and children
XMLElement ==
    [Format |-> "", File |-> <<>>, Label |-> NoneB, Index |-> NoneB, Type |-> NoneB,
     Flags |-> 0, Prop1 |-> NoneB, Prop2 |-> NoneB, ClusterFmt |-> NoneB,
     Flag1 |-> NoneB, FuncFlags |-> NoneB, Pattern |-> NoneB, HasThrall |-> NoneB,
     Field6 |-> NoneB, Field7 |-> NoneB,
     Value |-> <<>>, Dimension |-> <<>>, Client |-> <<>>, LabelElems |-> <<>>]

\* ConnectorObject.exportXML of an object that parseData() has parsed
ConnectorObject_exportXML(self, conn_elem) ==
    IF self.size <= 4 THEN [conn_elem EXCEPT !.Format = "inline"]
    ELSE [conn_elem EXCEPT !.Format = "bin",
                           !.File = SubSeq(self.raw_data, 5, Len(self.raw_data))]

exportXMLEnumAttr(self) ==
    [i \in 1..Len(self.values) |->
        [Index |-> FormatD(i - 1), EnumLabel |-> decode(self.values[i].label),
         UnitVal1 |-> NoneB, UnitVal2 |-> NoneB]]

exportXMLUnitsAttr(self) ==
    [i \in 1..Len(self.values) |->
        [Index |-> FormatD(i - 1), EnumLabel |-> NoneB,
         UnitVal1 |-> FormatD(self.values[i].intval1),
         UnitVal2 |-> FormatD(self.values[i].intval2)]]

\* prop1 is one byte in this class
ConnectorObjectNumber_exportXML(self, conn_elem) ==
    [conn_elem EXCEPT !.Prop1 = FormatD(IntFromBytes(self.prop1)),
                      !.Value = (IF isEnum(self) THEN exportXMLEnumAttr(self) ELSE <<>>)
                                \o (IF isPhys(self) THEN exportXMLUnitsAttr(self)
                                    ELSE <<>>),
                      !.Format = "inline"]

ConnectorObjectBlob_exportXML(self, conn_elem) ==
    [conn_elem EXCEPT !.Prop1 = BigFormat0xX(self.prop1), !.Format = "inline"]

ConnectorObjectRepeatedBlock_exportXML(self, conn_elem) ==
    [conn_elem EXCEPT !.Prop1 = BigFormat0xX(self.prop1),
                      !.Prop2 = Format0xX(self.prop2), !.Format = "inline"]

\* stringFromValEnumOrInt(CONNECTOR_CLUSTER_FORMAT, v) is taken as str(v)
ConnectorObjectMeasureData_exportXML(self, conn_elem) ==
    [conn_elem EXCEPT !.ClusterFmt = FormatD(self.clusterFmt), !.Format = "inline"]

\* a Client subelement
ClientElement(i, client) ==
    [Index |-> FormatD(i - 1), ConnectorIndex |-> FormatD(client.index),
     Flags |-> NoneB, ThrallSources |-> NoneB]

ConnectorObjectCluster_exportXML(self, conn_elem) ==
    [conn_elem EXCEPT !.Client = [i \in 1..Len(self.clients) |->
                                     ClientElement(i, self.clients[i])],
                      !.Format = "inline"]

ConnectorObjectSingleContainer_exportXML(self, conn_elem) ==
    [conn_elem EXCEPT !.Client = [i \in 1..Len(self.clients) |->
                                     [ClientElement(i, self.clients[i]) EXCEPT
                                         !.Flags = Format0x04X(self.clients[i].flags)]],
                      !.Format = "inline"]

ConnectorObjectArray_exportXML(self, conn_elem) ==
    [ConnectorObjectSingleContainer_exportXML(self, conn_elem) EXCEPT
        !.Dimension = [i \in 1..Len(self.dimensions) |->
                          [Index |-> FormatD(i - 1),
                           Flags |-> Format0x04X(self.dimensions[i].flags),
                           FixedSize |-> Format0x04X(self.dimensions[i].fixedSize)]]]

ConnectorObjectFunction_exportXML(self, conn_elem) ==
    [conn_elem EXCEPT
        !.FuncFlags = Format0xX(self.fflags),
        !.Pattern = Format0xX(self.pattern),
        !.HasThrall = FormatD(self.hasThrall),
        !.Field6 = IF self.field6 # <<>> THEN BigFormat0xX(self.field6) ELSE NoneB,
        !.Field7 = IF self.field7 # <<>> THEN BigFormat0xX(self.field7) ELSE NoneB,
        !.Client = [i \in 1..Len(self.clients) |->
                       [ClientElement(i, self.clients[i]) EXCEPT
                           !.Flags = BigFormat0x04X(self.clients[i].flags),
                           !.ThrallSources =
                               IF Len(self.clients[i].thrallSources) > 0
                               THEN ThrallText(self.clients[i].thrallSources)
                               ELSE NoneB]],
        !.Format = "inline"]

\* the object after exportXMLFinish
exportXMLFinishObj(self) ==
    [self EXCEPT !.oflags = IF self.label # NoneB
                            THEN (IF (self.oflags \div HasLabel) % 2 = 1
                                  THEN self.oflags ELSE self.oflags + HasLabel)
                            ELSE (IF (self.oflags \div HasLabel) % 2 = 1
                                  THEN self.oflags - HasLabel ELSE self.oflags)]

\* exportXMLFinish: exportXMLBitfields writes the flags, without HasLabel when
\* the format is not "bin"; then the label
exportXMLFinish(self, conn_elem) ==
    LET o == exportXMLFinishObj(self)
    IN  IF conn_elem.Format = "bin" THEN [conn_elem EXCEPT !.Flags = o.oflags]
        ELSE [conn_elem EXCEPT
                 !.Flags = IF (o.oflags \div HasLabel) % 2 = 1
                           THEN o.oflags - HasLabel ELSE o.oflags,
                 !.Label = IF self.label # NoneB THEN decode(self.label) ELSE NoneB]

RECURSIVE exportXML(_, _)

\* a Client subelement of a TypeDef: the nested connector, exported in place;
\* stringFromValEnumOrInt(CONNECTOR_FULL_TYPE, v) is taken as str(v)
NestedClientElement(i, client) ==
    LET subelem == [XMLElement EXCEPT !.Index = FormatD(i - 1),
                                      !.Type = FormatD(client.nested.otype)]
    IN  exportXMLFinish(client.nested, exportXML(client.nested, subelem))

ConnectorObjectTypeDef_exportXML(self, conn_elem) ==
    [conn_elem EXCEPT
        !.Flag1 = BigFormat0xX(self.flag1),
        !.Client = [i \in 1..Len(self.clients) |->
                       NestedClientElement(i, self.clients[i])],
        !.LabelElems = [i \in 1..Len(self.labels) |->
                           [Index |-> FormatD(i - 1), Text |-> decode(self.labels[i])]],
        !.Format = "inline"]

\* exportXML(conn_elem, fname_base) after its parseData()
exportXML(self, conn_elem) ==
    LET c == MethodClass(self.cls)
    IN  CASE c = "ConnectorObject" -> ConnectorObject_exportXML(self, conn_elem)
          [] c = "ConnectorObjectVoid" -> [conn_elem EXCEPT !.Format = "inline"]
          [] c = "ConnectorObjectNumber" -> ConnectorObjectNumber_exportXML(self, conn_elem)
          [] c = "ConnectorObjectBlob" -> ConnectorObjectBlob_exportXML(self, conn_elem)
          [] c = "ConnectorObjectArray" -> ConnectorObjectArray_exportXML(self, conn_elem)
          [] c = "ConnectorObjectRepeatedBlock" ->
                ConnectorObjectRepeatedBlock_exportXML(self, conn_elem)
          [] c = "ConnectorObjectCluster" ->
                ConnectorObjectCluster_exportXML(self, conn_elem)
          [] c = "ConnectorObjectMeasureData" ->
                ConnectorObjectMeasureData_exportXML(self, conn_elem)
          [] c = "ConnectorObjectSingleContainer" ->
                ConnectorObjectSingleContainer_exportXML(self, conn_elem)
          [] c = "ConnectorObjectTypeDef" ->
                ConnectorObjectTypeDef_exportXML(self, conn_elem)
          [] c = "ConnectorObjectFunction" ->
                ConnectorObjectFunction_exportXML(self, conn_elem)

-----------------------------------------------------------------------------
(* Reading the attributes of an element: the conversions initWithXML applies
   to the text before it stores a value *)

DigitValue(c) == IF c >= 97 THEN c - 87 ELSE IF c >= 65 THEN c - 55 ELSE c - 48

RECURSIVE DigitsValue(_, _)
DigitsValue(s, base) ==
    IF Len(s) = 0 THEN 0
    ELSE DigitsValue(SubSeq(s, 1, Len(s) - 1), base) * base + DigitValue(s[Len(s)])

\* the prefix "0x" or "0X" that makes int(s, 0) read base 16
IsHexText(s) == Len(s) > 2 /\ s[1] = 48 /\ s[2] \in {120, 88}

\* int(s, 0) of a decimal or hexadecimal literal
IntFromText(s) ==
    IF IsHexText(s) THEN DigitsValue(SubSeq(s, 3, Len(s)), 16) ELSE DigitsValue(s, 10)

RECURSIVE BigFromInt(_)
BigFromInt(n) == IF n <= 0 THEN <<>> ELSE BigFromInt(n \div 256) \o <<n % 256>>

\* int(s) in place of int(s, 0): every literal is read in base 10
BigFromTextDecimal(s) == BigFromInt(DigitsValue(s, 10))

\* int(s, 0) kept as digits
BigFromText(s) ==
    IF IsHexText(s)
    THEN LET h == SubSeq(s, 3, Len(s))
             even == IF Len(h) % 2 = 1 THEN <<48>> \o h ELSE h
         IN  BigFromBytes([k \in 1..(Len(even) \div 2) |->
                              16 * DigitValue(even[2 * k - 1]) + DigitValue(even[2 * k])])
    ELSE BigFromInt(DigitsValue(s, 10))

\* str.split(): the runs of characters between spaces
RECURSIVE Split(_, _)
Split(s, cur) ==
    IF Len(s) = 0 THEN (IF Len(cur) > 0 THEN <<cur>> ELSE <<>>)
    ELSE IF s[1] = 32
    THEN (IF Len(cur) > 0 THEN <<cur>> ELSE <<>>) \o Split(Tail(s), <<>>)
    ELSE Split(Tail(s), Append(cur, s[1]))

\* [int(itm,0) for itm in sub_subelem.text.split()]
ThrallFromText(s) ==
    IF s = NoneB THEN <<>>
    ELSE LET t == Split(s, <<>>) IN [k \in 1..Len(t) |-> IntFromText(t[k])]

\* "self.items[i] = item" for each subelement in turn, the list grown with None
NoneItem == [none |-> TRUE]

\* entries are [i |-> the Index attribute, item |-> the value built from the
\* subelement], in document order
RECURSIVE PlaceItems(_, _)
PlaceItems(items, entries) ==
    IF Len(entries) = 0 THEN items
    ELSE LET i == entries[1].i
             grown == IF i >= Len(items)
                      THEN items \o [j \in 1..(i - Len(items) + 1) |-> NoneItem]
                      ELSE items
         IN  PlaceItems([grown EXCEPT ![i + 1] = entries[1].item], Tail(entries))

ValueFromXML(subelem) ==
    IF subelem.EnumLabel # NoneB
    THEN [label |-> encode(subelem.EnumLabel), intval1 |-> NoneInt, intval2 |-> NoneInt]
    ELSE [label |-> NoneB, intval1 |-> IntFromText(subelem.UnitVal1),
          intval2 |-> IntFromText(subelem.UnitVal2)]

DimensionFromXML(subelem) ==
    [flags |-> IntFromText(subelem.Flags), fixedSize |-> IntFromText(subelem.FixedSize)]

\* a client of an Array or a single-client container, and one of a Cluster,
\* whose initWithXML sets client.flags = 0
ClientFromXML(subelem) ==
    [index |-> IntFromText(subelem.ConnectorIndex),
     flags |-> IF subelem.Flags = NoneB THEN 0 ELSE IntFromText(subelem.Flags),
     nested |-> NoNested]

FunctionClientFromXML(subelem) ==
    [Index |-> IntFromText(subelem.Index),
     ConnectorIndex |-> IntFromText(subelem.ConnectorIndex),
     Flags |-> BigFromText(subelem.Flags),
     ThrallSources |-> ThrallFromText(subelem.ThrallSources)]

LabelFromXML(subelem) == encode(subelem.Text)

ValuesFromXML(subelems) ==
    PlaceItems(<<>>, [k \in 1..Len(subelems) |->
                        [i |-> IntFromText(subelems[k].Index),
                         item |-> ValueFromXML(subelems[k])]])

DimensionsFromXML(subelems) ==
    PlaceItems(<<>>, [k \in 1..Len(subelems) |->
                        [i |-> IntFromText(subelems[k].Index),
                         item |-> DimensionFromXML(subelems[k])]])

ClientsFromXML(subelems) ==
    PlaceItems(<<>>, [k \in 1..Len(subelems) |->
                        [i |-> IntFromText(subelems[k].Index),
                         item |-> ClientFromXML(subelems[k])]])

LabelsFromXML(subelems) ==
    PlaceItems(<<>>, [k \in 1..Len(subelems) |->
                        [i |-> IntFromText(subelems[k].Index),
                         item |-> LabelFromXML(subelems[k])]])

Attr(s, none) == IF s = NoneB THEN none ELSE IntFromText(s)
BigAttr(s) == IF s = NoneB THEN <<>> ELSE BigFromText(s)

\* the element with its attributes converted, as initWithXML of cls reads them
RECURSIVE ElemFromXML(_, _)
ElemFromXML(cls, x) ==
    LET c == MethodClass(cls)
        base == [Elem(x.Format, IF x.Label = NoneB THEN NoneB ELSE encode(x.Label), x.File)
                    EXCEPT !.Index = Attr(x.Index, 0), !.Type = Attr(x.Type, 0),
                           !.Flags = x.Flags]
    IN  IF x.Format # "inline" THEN base
        ELSE CASE c = "ConnectorObjectNumber" ->
                    [base EXCEPT !.Prop1 = BigAttr(x.Prop1),
                                 !.Value = ValuesFromXML(x.Value)]
               [] c = "ConnectorObjectBlob" -> [base EXCEPT !.Prop1 = BigAttr(x.Prop1)]
               [] c = "ConnectorObjectRepeatedBlock" ->
                    [base EXCEPT !.Prop1 = BigAttr(x.Prop1), !.Prop2 = Attr(x.Prop2, 0)]
               [] c = "ConnectorObjectMeasureData" ->
                    [base EXCEPT !.ClusterFmt = Attr(x.ClusterFmt, 0)]
               [] c \in {"ConnectorObjectCluster", "ConnectorObjectSingleContainer"} ->
                    [base EXCEPT !.Client = ClientsFromXML(x.Client)]
               [] c = "ConnectorObjectArray" ->
                    [base EXCEPT
                        !.Client = ClientsFromXML(x.Client),
                        !.Dimension = DimensionsFromXML(x.Dimension)]
               [] c = "ConnectorObjectTypeDef" ->
                    [base EXCEPT
                        !.Flag1 = BigAttr(x.Flag1),
                        !.Labels = LabelsFromXML(x.LabelElems),
                        !.Client = [k \in 1..Len(x.Client) |->
                                       ElemFromXML(ConnectorClass(IntFromText(x.Client[k].Type)),
                                                   x.Client[k])]]
               [] c = "ConnectorObjectFunction" ->
                    [base EXCEPT
                        !.FuncFlags = Attr(x.FuncFlags, 0), !.Pattern = Attr(x.Pattern, 0),
                        !.HasThrall = Attr(x.HasThrall, 0),
                        !.Field6 = BigAttr(x.Field6), !.Field7 = BigAttr(x.Field7),
                        !.Client = [k \in 1..Len(x.Client) |->
                                       FunctionClientFromXML(x.Client[k])]]
               [] OTHER -> base

-----------------------------------------------------------------------------
(* readRSRC: the chain of RSRC headers at the start of a file.  A header is a
   record of the fields of RSRCHeader; the VI object holds the file (rsrc_fh),
   the attribute rsrc_headers and, while readRSRCList runs, its local variables
   curr_rsrc_pos, next_rsrc_pos and rsrc_headers (here headers) *)

\* sizeof(RSRCHeader)
RSRCHeaderSize == 24

\* b'RSRC\r\n'
RSRCMagic == <<82, 83, 82, 67, 13, 10>>
\* b'LBVW'
RSRCMarker == <<76, 66, 86, 87>>

\* the members of FILE_FMT_TYPE, in the order of their values
FILE_FMT_TYPE ==
    <<"NONE", "Control", "DLog", "ClassLib", "Project", "Library", "LLB",
      "MenuPalette", "TemplateControl", "TemplateVI", "Xcontrol", "VI">>

getIdForFileType(ftype) ==
    CASE ftype = "Control" -> <<76, 86, 67, 67>>
      [] ftype = "DLog" -> <<76, 86, 68, 76>>
      [] ftype = "ClassLib" -> <<67, 76, 73, 66>>
      [] ftype = "Project" -> <<76, 86, 80, 74>>
      [] ftype = "Library" -> <<76, 73, 66, 82>>
      [] ftype = "LLB" -> <<76, 86, 65, 82>>
      [] ftype = "MenuPalette" -> <<76, 77, 78, 85>>
      [] ftype = "TemplateControl" -> <<115, 86, 67, 67>>
      [] ftype = "TemplateVI" -> <<115, 86, 73, 78>>
      [] ftype = "Xcontrol" -> <<76, 86, 88, 67>>
      [] ftype = "VI" -> <<76, 86, 73, 78>>
      [] OTHER -> <<>>

\* the loop "for ftype in FILE_FMT_TYPE" from its k-th member on
RECURSIVE recognizeFileTypeFrom(_, _)
recognizeFileTypeFrom(file_type_id, k) ==
    IF k > Len(FILE_FMT_TYPE) THEN "NONE"
    ELSE IF Len(getIdForFileType(FILE_FMT_TYPE[k])) > 0
            /\ getIdForFileType(FILE_FMT_TYPE[k]) = file_type_id
         THEN FILE_FMT_TYPE[k]
         ELSE recognizeFileTypeFrom(file_type_id, k + 1)

recognizeFileType(file_type) == recognizeFileTypeFrom(file_type, 1)

\* LVmisc.RSRCStructure: the integers of a structure are big-endian
RSRCStructure_uint(b) == IntFromBytes(b)

\* fh.readinto(rsrchead) of a whole header: the fields at their offsets
RSRCHeader(b) ==
    [id1 |-> SubSeq(b, 1, 6),
     id2 |-> RSRCStructure_uint(SubSeq(b, 7, 8)),
     file_type |-> SubSeq(b, 9, 12),
     id4 |-> SubSeq(b, 13, 16),
     rsrc_offset |-> RSRCStructure_uint(SubSeq(b, 17, 20)),
     rsrc_size |-> BigFromBytes(SubSeq(b, 21, 24)),
     ftype |-> "NONE"]

\* what check_sanity() returns
RSRCHeader_check_sanityNoMarker(self) ==
    /\ self.id1 = RSRCMagic
    /\ recognizeFileType(self.file_type) # "NONE"
RSRCHeader_check_sanity(self) ==
    /\ self.id1 = RSRCMagic
    /\ recognizeFileType(self.file_type) # "NONE"
    /\ self.id4 = RSRCMarker

\* the header after check_sanity()
RSRCHeader_check_sanityObj(self) ==
    [self EXCEPT !.ftype = recognizeFileType(self.file_type)]

\* VI(po, rsrc_fh) before readRSRC()
NewVI(rsrc_fh) ==
    [rsrc_fh |-> rsrc_fh, rsrc_headers |-> <<>>, exc |-> "",
     curr_rsrc_pos |-> NoneInt, next_rsrc_pos |-> NoneInt, headers |-> <<>>]

\* one pass through the body of "while curr_rsrc_pos != next_rsrc_pos"
readRSRCListStep(self) ==
    LET curr_rsrc_pos == self.next_rsrc_pos
        buf == Read(self.rsrc_fh, curr_rsrc_pos, RSRCHeaderSize)
        rsrchead == RSRCHeader(buf)
        s == [self EXCEPT !.curr_rsrc_pos = curr_rsrc_pos]
    IN  IF Len(buf) # RSRCHeaderSize THEN [s EXCEPT !.exc = "EOFError"]
        ELSE IF ~RSRCHeader_check_sanity(rsrchead) THEN [s EXCEPT !.exc = "IOError"]
        ELSE IF rsrchead.rsrc_offset >= curr_rsrc_pos
        THEN [s EXCEPT !.next_rsrc_pos = rsrchead.rsrc_offset,
                       !.headers = Append(@, RSRCHeader_check_sanityObj(rsrchead))]
        ELSE [s EXCEPT !.exc = "IOError"]

-----------------------------------------------------------------------------
(* readRSRC: file types and file extensions *)

getFileExtByTypeSwapped(ftype) ==
    CASE ftype = "Control" -> "ctt"
      [] ftype = "DLog" -> "dlog"
      [] ftype = "ClassLib" -> "lvclass"
      [] ftype = "Project" -> "lvproj"
      [] ftype = "Library" -> "lvlib"
      [] ftype = "LLB" -> "llb"
      [] ftype = "MenuPalette" -> "mnu"
      [] ftype = "TemplateControl" -> "ctl"
      [] ftype = "TemplateVI" -> "vit"
      [] ftype = "Xcontrol" -> "xctl"
      [] ftype = "VI" -> "vi"
      [] OTHER -> "rsrc"
getFileExtByType(ftype) ==
    CASE ftype = "Control" -> "ctl"
      [] ftype = "DLog" -> "dlog"
      [] ftype = "ClassLib" -> "lvclass"
      [] ftype = "Project" -> "lvproj"
      [] ftype = "Library" -> "lvlib"
      [] ftype = "LLB" -> "llb"
      [] ftype = "MenuPalette" -> "mnu"
      [] ftype = "TemplateControl" -> "ctt"
      [] ftype = "TemplateVI" -> "vit"
      [] ftype = "Xcontrol" -> "xctl"
      [] ftype = "VI" -> "vi"
      [] OTHER -> "rsrc"

-----------------------------------------------------------------------------
(* Walking the clients of a record.  VCTP.content is the catalog, a sequence of
   connector objects; a call of getClientConnectorsByType is a frame holding
   self, the list clientsEnumerate returned, the position k of the loop in it
   and out_lists; the frames of the calls in progress are the stack.  A
   connector in out_lists is written as its index. *)

hasClients(self) == Len(self.clients) > 0

isString(self) == fullType(self) = 48

isPath(self) == fullType(self) = 50

\* VCTP.content[client.index] raises IndexError
clientsEnumerateRaises(self, content) ==
    \E i \in 1..Len(self.clients) :
        self.clients[i].index # -1 /\ self.clients[i].index >= Len(content)

clientsEnumerate(self, content) ==
    [i \in 1..Len(self.clients) |->
        [cli_idx |-> i - 1, conn_idx |-> self.clients[i].index,
         conn_obj |-> IF self.clients[i].index = -1 THEN self.clients[i].nested
                      ELSE content[self.clients[i].index + 1],
         conn_flags |-> self.clients[i].flags]]

NoLists ==
    [number |-> <<>>, path |-> <<>>, string |-> <<>>, compound |-> <<>>, other |-> <<>>]

\* out_lists[...].append(conn_obj), by the type of conn_obj
AppendByType(out_lists, conn_obj) ==
    IF isNumber(conn_obj) = "True"
    THEN [out_lists EXCEPT !.number = Append(@, conn_obj.index)]
    ELSE IF isPath(conn_obj) THEN [out_lists EXCEPT !.path = Append(@, conn_obj.index)]
    ELSE IF isString(conn_obj)
    THEN [out_lists EXCEPT !.string = Append(@, conn_obj.index)]
    ELSE IF hasClients(conn_obj)
    THEN [out_lists EXCEPT !.compound = Append(@, conn_obj.index)]
    ELSE [out_lists EXCEPT !.other = Append(@, conn_obj.index)]

\* out_lists[k].extend(sub_lists[k]) for every k
ExtendLists(out_lists, sub_lists) ==
    [number |-> out_lists.number \o sub_lists.number,
     path |-> out_lists.path \o sub_lists.path,
     string |-> out_lists.string \o sub_lists.string,
     compound |-> out_lists.compound \o sub_lists.compound,
     other |-> out_lists.other \o sub_lists.other]

\* the calls the interpreter nests before it raises RecursionError
MaxDepth == 4

\* the call on self, already parsed, reaches the loop over clientsEnumerate()
EnterParsed(vctp, self) ==
    IF Len(vctp.stack) >= MaxDepth THEN [vctp EXCEPT !.exc = "RecursionError"]
    ELSE IF clientsEnumerateRaises(self, vctp.content)
    THEN [vctp EXCEPT !.exc = "IndexError"]
    ELSE [vctp EXCEPT !.stack =
             Append(@, [self |-> self,
                        out_enum |-> clientsEnumerate(self, vctp.content),
                        k |-> 1, out_lists |-> NoLists])]

\* getClientConnectorsByType is entered on obj: parseData(), clientsEnumerate()
getClientConnectorsByTypeEnter(vctp, obj) == EnterParsed(vctp, parseData(obj))

\* the body of the loop for the frame at depth d and the parsed client conn_obj
StepParsed(vctp, d, conn_obj) ==
    IF hasClients(conn_obj)
    THEN EnterParsed([vctp EXCEPT !.stack[d].out_lists = AppendByType(@, conn_obj)],
                     conn_obj)
    ELSE [vctp EXCEPT !.stack[d].out_lists = AppendByType(@, conn_obj),
                      !.stack[d].k = @ + 1]

\* one pass through the body of the loop over the clients, up to the recursive call
getClientConnectorsByTypeStep(vctp) ==
    StepParsed(vctp, Len(vctp.stack),
               parseData(vctp.stack[Len(vctp.stack)].out_enum[
                             vctp.stack[Len(vctp.stack)].k].conn_obj))

\* the frame at depth d returns out_lists to the frame below it
ReturnFrom(vctp, d) ==
    IF d = 1 THEN [vctp EXCEPT !.stack = <<>>, !.result = vctp.stack[d].out_lists]
    ELSE [vctp EXCEPT
             !.stack = SubSeq(@, 1, d - 1),
             !.stack[d - 1].out_lists = ExtendLists(@, vctp.stack[d].out_lists),
             !.stack[d - 1].k = @ + 1]

\* "return out_lists": to the caller, which extends its lists and goes on
getClientConnectorsByTypeReturn(vctp) == ReturnFrom(vctp, Len(vctp.stack))

-----------------------------------------------------------------------------
(* The inputs: records of a VCTP block, XML elements, buffers handed to setData *)

\* the tags whose records are loaded: one or two for each class of the model
ModelledTags == {0, 3, 21, 25, 33, 48, 56, 64, 80, 84, 97, 99, 144, 241}

FlagValues == {0, HasLabel}

\* bytes of a tail: padding, a byte no label may hold, a label character
TailBytes == {0, 5, 65}

SeqsUpTo(S, n) == UNION {[1..k -> S] : k \in 0..n}

Header(len, obj_flags, obj_type) == ToBytes(len, 2) \o <<obj_flags, obj_type>>

\* a record whose length field is its length
Record(obj_type, obj_flags, rest) == Header(4 + Len(rest), obj_flags, obj_type) \o rest

\* a label as the file stores it: length byte, text, padding to even size
LabelBlock(label) ==
    <<Len(label)>> \o label \o (IF Len(label) % 2 = 0 THEN <<0>> ELSE <<>>)

LongLabel == [k \in 1..9 |-> 65]

\* records stored inside a TypeDef: their length field is 4 more than their length
NestedRecords ==
    LET biased(r) == ToBytes(Len(r) + NestedLengthBias, 2) \o SubSeq(r, 3, Len(r))
    IN  {biased(r) : r \in {Record(0, 0, <<>>),
                            Record(0, HasLabel, LabelBlock(<<65>>)),
                            Record(3, 0, <<0>>),
                            Record(144, 0, <<5>>),
                            Record(144, HasLabel, <<>>),
                            Record(64, 0, <<0, 1, 128, 0, 0, 0, 0, 0>>)}}

\* Function payloads: two clients with u16 flags and no has_thrall field; one
\* client with u16 flags and thrall sources 1, 3 (0, 2 from 8.2.0 beta on); one
\* client with u32 flags and thrall source byte 255; field6, field7 and the
\* special last client
FunctionBodies ==
    {<<0, 2, 0, 0, 0, 1, 0, 0, 0, 65, 0, 0, 0, 0>>,
     <<0, 1, 0, 0, 0, 0, 0, 0, 0, 0, 0, 1, 1, 3, 0>>,
     <<0, 1, 0, 1, 0, 0, 0, 65, 0, 0, 0, 5, 0, 1, 255, 0>>,
     <<0, 0, 136, 0, 0, 0, 0, 0, 0, 0, 0, 6, 0, 0, 0, 7, 0, 1>>}

\* the fields of a record between its header and its label
Bodies(obj_type) ==
    CASE obj_type \in {0, 33} -> {<<>>}
      [] obj_type = 3 -> {<<0>>, <<10>>}
      [] obj_type = 21 -> {<<0, 1, 1, 65, 0>>, <<0, 1, 2, 65, 66, 0, 0>>}
      [] obj_type = 25 -> {<<0, 1, 0, 1, 0, 2, 0>>}
      [] obj_type = 48 -> {<<255, 255, 255, 255>>, <<0, 0, 0, 1>>}
      [] obj_type = 64 -> {<<0, 1, 128, 0, 0, 0, 0, 0>>, <<0, 0, 0, 0>>}
      [] obj_type = 80 -> {<<0, 1, 0, 0>>, <<0, 0>>}
      [] obj_type = 84 -> {<<0, 16>>}
      [] obj_type = 97 -> {<<0, 0>>, <<0, 5>>}
      [] obj_type = 99 -> {<<0, 0, 0, 1, 0, 2>>}
      [] obj_type = 241 ->
            {<<0, 0, 0, 0>> \o t \o n :
                t \in {<<0, 0, 0, 0>>, <<0, 0, 0, 1, 1, 88>>}, n \in NestedRecords}
      [] obj_type = 240 -> FunctionBodies
      [] OTHER -> {<<>>, <<5>>, <<10>>}

Records(obj_type, obj_flags) ==
    LET labels == IF obj_flags = HasLabel
                  THEN {<<>>, LabelBlock(<<65>>), LabelBlock(<<65, 66>>)} ELSE {<<>>}
        tails == IF obj_type = 241 THEN SeqsUpTo(TailBytes, MaxTail - 1)
                 ELSE SeqsUpTo(TailBytes, MaxTail)
    IN  {Record(obj_type, obj_flags, b \o l \o t) :
            b \in Bodies(obj_type), l \in labels, t \in tails}
        \cup (IF obj_flags = HasLabel /\ ConnectorClass(obj_type) = "ConnectorObject"
              THEN {Record(obj_type, obj_flags, b \o LabelBlock(LongLabel)) :
                       b \in {<<>>, <<10>>}}
              ELSE {})

\* what a caller hands to setData: a record of the object's type
SetDataBuffers(obj_type) ==
    LET b == CHOOSE x \in Bodies(obj_type) : \A y \in Bodies(obj_type) : Len(x) <= Len(y)
    IN  {Record(obj_type, 0, b), Record(obj_type, HasLabel, b),
         Record(obj_type, HasLabel, b \o LabelBlock(<<65>>))}
        \cup (IF ConnectorClass(obj_type) = "ConnectorObject"
              THEN {Record(obj_type, HasLabel, <<10>>)} ELSE {})

\* a Client subelement of a Function element
FunctionClientElem(i, idx, flags, sources) ==
    [Index |-> i, ConnectorIndex |-> idx, Flags |-> flags, ThrallSources |-> sources]

\* Function elements: no client; clients with and without thrall sources, in
\* and out of order; a source of 255; a client list with a hole
FunctionElements(e) ==
    {[e EXCEPT !.FuncFlags = ff, !.Pattern = 65, !.HasThrall = ht, !.Client = cl] :
        ff \in {0}, ht \in {0, 1},
        cl \in {<<>>,
                <<FunctionClientElem(0, 0, <<>>, <<0, 2>>)>>,
                <<FunctionClientElem(1, 1, <<1>>, <<>>),
                  FunctionClientElem(0, 0, <<1, 0, 0>>, <<254>>)>>,
                <<FunctionClientElem(0, 1, <<>>, <<255>>)>>,
                <<FunctionClientElem(1, 0, <<>>, <<>>)>>}}
    \cup {[e EXCEPT !.FuncFlags = 34816, !.Field6 = <<6>>,
                    !.Client = <<FunctionClientElem(0, 1, <<>>, <<>>)>>]}

\* the elements a connector of this type is loaded from
XMLElements(self) ==
    LET c == MethodClass(self.cls)
        client == <<[index |-> 0, flags |-> 0, nested |-> NoNested]>>
        props(e) ==
          CASE c = "ConnectorObjectNumber" ->
                 {[e EXCEPT !.Value =
                      IF isEnum(self)
                      THEN <<[label |-> <<65>>, intval1 |-> NoneInt, intval2 |-> NoneInt]>>
                      ELSE IF isPhys(self)
                      THEN <<[label |-> NoneB, intval1 |-> 1, intval2 |-> 2]>>
                      ELSE <<>>]}
            [] c = "ConnectorObjectBlob" -> {[e EXCEPT !.Prop1 = Blob_prop1_expected]}
            [] c = "ConnectorObjectRepeatedBlock" ->
                 {[e EXCEPT !.Prop1 = <<1>>, !.Prop2 = 2]}
            [] c = "ConnectorObjectMeasureData" -> {[e EXCEPT !.ClusterFmt = 16]}
            [] c \in {"ConnectorObjectCluster", "ConnectorObjectSingleContainer"} ->
                 {[e EXCEPT !.Client = client]}
            [] c = "ConnectorObjectArray" ->
                 {[e EXCEPT !.Client = client,
                            !.Dimension = <<[flags |-> 128, fixedSize |-> 0]>>]}
            [] c = "ConnectorObjectTypeDef" ->
                 {[e EXCEPT !.Labels = <<<<88>>>>, !.Client = <<n>>] :
                     n \in {Elem("inline", NoneB, <<>>),
                            [Elem("inline", <<65>>, <<>>) EXCEPT !.Type = 3],
                            [Elem("bin", NoneB, <<5>>) EXCEPT !.Type = 144,
                                                             !.Flags = HasLabel],
                            [Elem("inline", NoneB, <<>>) EXCEPT !.Index = 1]}}
            [] c = "ConnectorObjectFunction" -> FunctionElements(e)
            [] OTHER -> {e}
    IN  UNION {props([Elem("inline", l, <<>>) EXCEPT !.Unexpected = u]) :
                  l \in {NoneB, <<65>>}, u \in BOOLEAN}
        \cup {Elem("bin", NoneB, f) :
                 f \in IF c \in {"ConnectorObject", "ConnectorObjectVoid"}
                       THEN {<<>>, <<5>>, <<1, 65>>} ELSE {<<>>, <<5>>}}
        \cup {Elem("text", NoneB, <<>>)}

-----------------------------------------------------------------------------
(* The state machine: one connector object and the operations on it *)

\* what the last operation was and did: parsed when parseData() parsed raw bytes,
\* emitted when updateData() built raw_data, val and out what a query returned
Result(op, parsed, emitted) ==
    [op |-> op, parsed |-> parsed, emitted |-> emitted, val |-> "", out |-> <<>>]

\* newConnectorObject(vi, idx, obj_flags, obj_type, po)
Init ==
    /\ conn \in {newConnectorObject(idx, f, t) :
                    idx \in 0..(CatalogSize - 1), f \in FlagValues, t \in ModelledTags}
    /\ ret = Result("newConnectorObject", FALSE, FALSE)

\* the loader reads a record's header, creates the object, and hands it the record
InitWithRSRC ==
    /\ ret.op = "newConnectorObject"
    /\ \E r \in Records(conn.otype, conn.oflags) :
          conn' = initWithRSRC(conn, r, 0, Len(r))
    /\ ret' = Result("initWithRSRC", FALSE, FALSE)

InitWithXML ==
    /\ ret.op = "newConnectorObject"
    /\ \E e \in XMLElements(conn) :
          /\ conn' = initWithXML(conn, e)
          /\ ret' = [Result("initWithXML", FALSE, e.Format = "inline" /\ conn'.exc = "")
                        EXCEPT !.val = IF e.Format = "inline" /\ e.Unexpected
                                       THEN "unexpected tag" ELSE ""]

SetData ==
    /\ conn.exc = ""
    /\ \E b \in SetDataBuffers(conn.otype) : conn' = setData(conn, b, FALSE)
    /\ ret' = Result("setData", FALSE, FALSE)

ParseData ==
    /\ conn.exc = ""
    /\ conn' = parseData(conn)
    /\ ret' = Result("parseData", conn.raw_data_updated /\ conn'.exc = "", FALSE)

UpdateData ==
    /\ conn.exc = ""
    /\ \E avoid_recompute \in BOOLEAN :
          /\ conn' = updateData(conn, avoid_recompute)
          /\ conn'.raw_data = NoneB \/ Len(conn'.raw_data) <= MaxRecord
          /\ ret' = [Result("updateData", FALSE,
                            ~(avoid_recompute /\ conn.raw_data_updated) /\ conn'.exc = "")
                        EXCEPT !.val = IF avoid_recompute THEN "avoid_recompute" ELSE ""]

Next == InitWithRSRC \/ InitWithXML \/ SetData \/ ParseData \/ UpdateData

Spec == Init /\ [][Next]_vars

-----------------------------------------------------------------------------
(* A Function record in files of several versions *)

\* 7.0, 8.0 alpha, 8.0 beta, 8.2 beta, 9.0, 10.0 alpha, 11.0
Versions ==
    {<<7, 0, 0, StageRelease>>, <<8, 0, 0, StageAlpha>>, <<8, 0, 0, StageBeta>>,
     <<8, 2, 0, StageBeta>>, <<9, 0, 0, StageRelease>>, <<10, 0, 0, StageAlpha>>,
     <<11, 0, 0, StageRelease>>}

InitFunction ==
    /\ conn \in {[newConnectorObject(idx, f, 240) EXCEPT !.ver = v] :
                    idx \in 0..(CatalogSize - 1), f \in FlagValues, v \in Versions}
    /\ ret = Result("newConnectorObject", FALSE, FALSE)

SpecFunction == InitFunction /\ [][Next]_vars

-----------------------------------------------------------------------------
(* Exporting a record to XML and loading the exported element *)

XMLTags == ModelledTags \cup {240}

InitXML ==
    /\ conn \in {[newConnectorObject(idx, f, t) EXCEPT !.ver = v] :
                    idx \in 0..(CatalogSize - 1), f \in FlagValues, t \in XMLTags,
                    v \in {<<8, 2, 0, StageBeta>>, DefaultVersion}}
    /\ conn.otype = 240 \/ conn.ver = DefaultVersion
    /\ ret = Result("newConnectorObject", FALSE, FALSE)

\* exportXML(conn_elem, fname_base), then exportXMLFinish(conn_elem), of a
\* record of a loaded catalog; ret.out holds the element
ExportXML ==
    /\ ret.op \in {"initWithRSRC", "parseData"}
    /\ conn.exc = "" /\ conn.raw_data # NoneB
    /\ LET o == parseData(conn)
       IN  /\ o.exc = ""
           /\ conn' = exportXMLFinishObj(o)
           /\ ret' = [Result("exportXML", FALSE, FALSE) EXCEPT
                         !.out = <<exportXMLFinish(o, exportXML(o, XMLElement))>>]

\* the exported element is loaded into a fresh object; ret.out holds the
\* record that was exported
LoadExported ==
    /\ ret.op = "exportXML"
    /\ conn' = initWithXML([newConnectorObject(conn.index, ret.out[1].Flags, conn.otype)
                               EXCEPT !.ver = conn.ver],
                           ElemFromXML(conn.cls, ret.out[1]))
    /\ ret' = [Result("loadExported", FALSE, FALSE) EXCEPT
                  !.val = ret.out[1].Format, !.out = <<conn>>]

NextXML == InitWithRSRC \/ ParseData \/ ExportXML \/ LoadExported

SpecXML == InitXML /\ [][NextXML]_vars

-----------------------------------------------------------------------------
(* Record headers: a TypeDef record whose nested connector declares a length
   that may disagree with the bytes that follow it *)

\* longest run of bytes after the header of the nested connector
MaxNestedRest == 3

\* length fields of a nested header: shorter than a header, shorter than the
\* bytes that follow, exact, longer, and the largest two values of the field
DeclaredLengths == {0, 3, 4, 7, 8, 9, 10, 11, 12, 255, 65534, 65535}

\* the type of the nested connector: Void, a number, a blob
NestedTags == {0, 3, 48}

\* header, flag1, an empty label table, the nested connector
TypeDefRecords(obj_flags) ==
    {Record(241, obj_flags,
            <<0, 0, 0, 0>> \o ToBytes(0, 4) \o Header(d, 0, t) \o rest) :
        d \in DeclaredLengths, t \in NestedTags,
        rest \in SeqsUpTo(TailBytes, MaxNestedRest)}

InitHeader ==
    /\ conn \in {newConnectorObject(idx, f, 241) :
                    idx \in 0..(CatalogSize - 1), f \in FlagValues}
    /\ ret = Result("newConnectorObject", FALSE, FALSE)

LoadTypeDef ==
    /\ ret.op = "newConnectorObject"
    /\ \E r \in TypeDefRecords(conn.oflags) :
          conn' = initWithRSRC(conn, r, 0, Len(r))
    /\ ret' = Result("initWithRSRC", FALSE, FALSE)

\* ConnectorObject.parseRSRCDataHeader(bldata) with bldata at offset pos of the
\* record: out is <<pos, what the call returned and where it left bldata>>
ParseRSRCDataHeader ==
    /\ ret.op = "initWithRSRC"
    /\ \E pos \in 0..Len(conn.raw_data) :
          ret' = [Result("parseRSRCDataHeader", FALSE, FALSE)
                     EXCEPT !.out = <<pos, parseRSRCDataHeader(conn.raw_data, pos)>>]
    /\ UNCHANGED conn

NextHeader == LoadTypeDef \/ ParseRSRCDataHeader \/ ParseData

SpecHeader == InitHeader /\ [][NextHeader]_vars

-----------------------------------------------------------------------------
(* Reading the chain of RSRC headers of a file *)

\* most headers a generated file holds
MaxHeaders == 2

\* a sound header of a VI and of a template, and one with a wrong magic, a
\* wrong file type, a wrong marker
HeaderVariants ==
    {[id1 |-> RSRCMagic, file_type |-> getIdForFileType("VI"), id4 |-> RSRCMarker],
     [id1 |-> RSRCMagic, file_type |-> getIdForFileType("TemplateVI"), id4 |-> RSRCMarker],
     [id1 |-> <<82, 83, 82, 67, 10, 13>>, file_type |-> getIdForFileType("VI"),
      id4 |-> RSRCMarker],
     [id1 |-> RSRCMagic, file_type |-> <<76, 86, 73, 73>>, id4 |-> RSRCMarker],
     [id1 |-> RSRCMagic, file_type |-> getIdForFileType("VI"),
      id4 |-> <<76, 66, 86, 86>>]}

RSRCHeaderBytes(v, rsrc_offset) ==
    v.id1 \o ToBytes(3, 2) \o v.file_type \o v.id4
    \o ToBytes(rsrc_offset, 4) \o ToBytes(RSRCHeaderSize, 4)

\* where the header at pos may point: to itself, to the place after it, into the
\* middle of what follows, back to the start of the file
NextOffsets(pos) ==
    {pos, pos + RSRCHeaderSize, pos + RSRCHeaderSize + RSRCHeaderSize \div 2, 0}

\* the files of n headers, the first of them at pos
RECURSIVE RSRCFilesFrom(_, _)
RSRCFilesFrom(pos, n) ==
    IF n = 0 THEN {<<>>}
    ELSE {RSRCHeaderBytes(v, o) \o rest :
             v \in HeaderVariants, o \in NextOffsets(pos),
             rest \in RSRCFilesFrom(pos + RSRCHeaderSize, n - 1)}

RSRCFiles == UNION {RSRCFilesFrom(0, n) : n \in 0..MaxHeaders}

InitRSRC ==
    /\ conn \in {NewVI(fh) : fh \in RSRCFiles}
    /\ ret = Result("VI", FALSE, FALSE)

\* readRSRCList() is entered: out lists the positions fh.seek() was given
ReadRSRCListEnter ==
    /\ ret.op = "VI"
    /\ conn' = [conn EXCEPT !.headers = <<>>, !.curr_rsrc_pos = -1,
                            !.next_rsrc_pos = 0]
    /\ ret' = Result("readRSRCList", FALSE, FALSE)

ReadRSRCHeader ==
    /\ ret.op = "readRSRCList"
    /\ conn.curr_rsrc_pos # conn.next_rsrc_pos
    /\ conn' = readRSRCListStep(conn)
    /\ ret' = [ret EXCEPT !.op = IF conn'.exc # "" THEN "raise" ELSE @,
                          !.out = Append(@, conn.next_rsrc_pos)]

\* the loop is left: self.rsrc_headers = rsrc_headers; return (len(rsrc_headers) > 0)
ReadRSRCListReturn ==
    /\ ret.op = "readRSRCList"
    /\ conn.curr_rsrc_pos = conn.next_rsrc_pos
    /\ conn' = [conn EXCEPT !.rsrc_headers = conn.headers]
    /\ ret' = [ret EXCEPT !.op = "return",
                          !.val = IF Len(conn.headers) > 0 THEN "True" ELSE "False"]

NextRSRC == ReadRSRCListEnter \/ ReadRSRCHeader \/ ReadRSRCListReturn

\* the interpreter runs the call to its end
SpecRSRC == InitRSRC /\ [][NextRSRC]_vars /\ WF_vars(NextRSRC)

-----------------------------------------------------------------------------
(* The file type of a header: recognizing it, naming it, checking it *)

\* the letters the file-type tags are made of: C I L N V s
TagLetters == {67, 73, 76, 78, 86, 115}

\* every tag of the format and every 4-letter word over TagLetters
FileTypeTags ==
    {getIdForFileType(FILE_FMT_TYPE[k]) : k \in 2..Len(FILE_FMT_TYPE)}
    \cup [1..4 -> TagLetters]

\* a header that is sound but for its file type
InitFileType ==
    /\ conn \in {RSRCHeader(RSRCHeaderBytes([id1 |-> RSRCMagic, file_type |-> t,
                                            id4 |-> RSRCMarker], 0)) :
                    t \in FileTypeTags}
    /\ ret = Result("RSRCHeader", FALSE, FALSE)

\* getIdForFileType(ftype): val is ftype, out the identifier
GetIdForFileType ==
    /\ ret.op = "RSRCHeader"
    /\ \E k \in 1..Len(FILE_FMT_TYPE) :
          ret' = [Result("getIdForFileType", FALSE, FALSE)
                     EXCEPT !.val = FILE_FMT_TYPE[k],
                            !.out = <<getIdForFileType(FILE_FMT_TYPE[k])>>]
    /\ UNCHANGED conn

\* recognizeFileType() of the header's file type, or of the identifier that
\* getIdForFileType just gave: val is the member found, out the tag and the
\* member the identifier was asked for ("" for the header's tag)
RecognizeFileType ==
    /\ ret.op \in {"RSRCHeader", "getIdForFileType"}
    /\ LET tag == IF ret.op = "RSRCHeader" THEN conn.file_type ELSE ret.out[1]
       IN  ret' = [Result("recognizeFileType", FALSE, FALSE)
                      EXCEPT !.val = recognizeFileType(tag),
                             !.out = <<tag, ret.val>>]
    /\ UNCHANGED conn

\* getFileExtByType() of the member recognized: out is the extension
GetFileExtByType ==
    /\ ret.op = "recognizeFileType"
    /\ ret' = [Result("getFileExtByType", FALSE, FALSE)
                  EXCEPT !.val = ret.val, !.out = <<getFileExtByType(ret.val)>>]
    /\ UNCHANGED conn

\* rsrchead.check_sanity(): parsed is what it returned
CheckSanity ==
    /\ ret.op = "RSRCHeader"
    /\ conn' = RSRCHeader_check_sanityObj(conn)
    /\ ret' = Result("check_sanity", RSRCHeader_check_sanity(conn), FALSE)

NextFileType == GetIdForFileType \/ RecognizeFileType \/ GetFileExtByType \/ CheckSanity

SpecFileType == InitFileType /\ [][NextFileType]_vars

-----------------------------------------------------------------------------
(* Function records with field6, field7 and the special last client, laid out
   as a file of the object's version lays them out *)

\* the counted clients of the generated payloads: index, flags, thrall sources
MainClients ==
    {<<>>,
     <<[index |-> 1, flags |-> 0, thrallSources |-> <<>>]>>,
     <<[index |-> 0, flags |-> 65, thrallSources |-> <<1, 2>>],
       [index |-> 1, flags |-> 0, thrallSources |-> <<>>]>>}

\* none, field6 and field7, the special client, both
FunctionFlagValues == {0, 2048, 32768, 34816}

\* index of the special client: narrow, and the first value written wide
SpecialIndices == {0, 1, 65535}

U2p2Field(n) == IF n >= 65535 THEN <<255, 255>> \o ToBytes(n, 4) ELSE ToBytes(n, 2)

RECURSIVE IndexFields(_)
IndexFields(main) ==
    IF Len(main) = 0 THEN <<>>
    ELSE U2p2Field(main[1].index) \o IndexFields(Tail(main))

RECURSIVE FlagFields(_, _)
FlagFields(main, w) ==
    IF Len(main) = 0 THEN <<>>
    ELSE ToBytes(main[1].flags, w) \o FlagFields(Tail(main), w)

\* a source s is the byte s+1 from 8.2.0 beta on, the byte s before
RECURSIVE ThrallFields(_, _)
ThrallFields(main, bias) ==
    IF Len(main) = 0 THEN <<>>
    ELSE [k \in 1..Len(main[1].thrallSources) |-> main[1].thrallSources[k] + bias]
         \o <<0>> \o ThrallFields(Tail(main), bias)

FunctionPayload(ver, main, fflags, pattern, hasThrall, special) ==
    U2p2Field(Len(main)) \o IndexFields(main)
    \o ToBytes(fflags, 2) \o ToBytes(pattern, 2)
    \o FlagFields(main, IF isGreaterOrEqVersion(ver, 10, 0, 0, StageAlpha)
                        THEN 4 ELSE 2)
    \o (IF isGreaterOrEqVersion(ver, 8, 0, 0, StageBeta)
        THEN ToBytes(hasThrall, 2)
             \o (IF hasThrall # 0
                 THEN ThrallFields(main, IF isGreaterOrEqVersion(ver, 8, 2, 0, StageBeta)
                                         THEN 1 ELSE 0)
                 ELSE <<>>)
        ELSE <<>>)
    \o (IF (fflags \div 2048) % 2 = 1 THEN ToBytes(6, 4) \o ToBytes(7, 4) ELSE <<>>)
    \o (IF (fflags \div 32768) % 2 = 1 THEN U2p2Field(special) ELSE <<>>)

SpecialRecords(ver, obj_flags) ==
    {Record(240, obj_flags,
            FunctionPayload(ver, main, fflags, pattern, hasThrall, special)
            \o (IF obj_flags = HasLabel THEN LabelBlock(<<65>>) ELSE <<>>)) :
        main \in MainClients, fflags \in FunctionFlagValues, pattern \in {0, 1},
        hasThrall \in {0, 1}, special \in SpecialIndices}

LoadFunction ==
    /\ ret.op = "newConnectorObject"
    /\ \E r \in SpecialRecords(conn.ver, conn.oflags) :
          conn' = initWithRSRC(conn, r, 0, Len(r))
    /\ ret' = Result("initWithRSRC", FALSE, FALSE)

\* updateData() of the record just parsed: out is the record it was parsed from
EmitParsed ==
    /\ ret.op = "parseData" /\ ret.parsed
    /\ conn' = updateData(conn, FALSE)
    /\ ret' = [Result("updateData", FALSE, conn'.exc = "") EXCEPT !.out = <<conn.raw_data>>]

NextSpecial == LoadFunction \/ ParseData \/ EmitParsed

SpecSpecial == InitFunction /\ [][NextSpecial]_vars

-----------------------------------------------------------------------------
(* A TypeDef loaded from a record or from an inline element with any number
   of Client subelements *)

\* Client subelements: a Void, a number with a label, a Void with Index="1"
TypeDefClientElems ==
    {Elem("inline", NoneB, <<>>),
     [Elem("inline", <<65>>, <<>>) EXCEPT !.Type = 3],
     [Elem("inline", NoneB, <<>>) EXCEPT !.Index = 1]}

\* the most Client subelements of an element
MaxClientElems == 2

TypeDefElements ==
    {[Elem("inline", l, <<>>) EXCEPT !.Labels = t, !.Client = cl] :
        l \in {NoneB, <<65>>}, t \in {<<>>, <<<<88>>>>},
        cl \in SeqsUpTo(TypeDefClientElems, MaxClientElems)}

InitTypeDef ==
    /\ conn \in {newConnectorObject(idx, f, 241) :
                    idx \in 0..(CatalogSize - 1), f \in FlagValues}
    /\ ret = Result("newConnectorObject", FALSE, FALSE)

\* ConnectorObjectTypeDef.initWithXML, Format="inline"
InitWithXMLTypeDef ==
    /\ ret.op = "newConnectorObject"
    /\ \E e \in TypeDefElements :
          /\ conn' = initWithXML(conn, e)
          /\ ret' = [Result("initWithXML", FALSE, conn'.exc = "")
                        EXCEPT !.out = <<Len(e.Client)>>]

NextTypeDef == InitWithRSRC \/ ParseData \/ InitWithXMLTypeDef

SpecTypeDef == InitTypeDef /\ [][NextTypeDef]_vars

-----------------------------------------------------------------------------
(* FixedPoint records *)

\* field1C: dataVersion 0 and 1, every rangeFormat, the encoding and endianness
\* bits, and high bytes that set none, some and all of dataUnit, allocOv and the
\* other flags
Field1CValues ==
    {v + 16 * f + e + 256 * h :
        v \in {0, 1}, f \in 0..3, e \in {0, 192}, h \in {0, 9, 246, 255}}

\* prop3 of the first range: the ends of the signed 32-bit range, -1 and 0
Prop3Bytes == {<<128, 0, 0, 0>>, <<255, 255, 255, 255>>, <<0, 0, 0, 0>>,
               <<127, 255, 255, 255>>}

\* 0.0, 1.5 and -infinity
Doubles == {<<0, 0, 0, 0, 0, 0, 0, 0>>, <<63, 248, 0, 0, 0, 0, 0, 0>>,
            <<255, 240, 0, 0, 0, 0, 0, 0>>}

\* the three ranges as a record with this field1C and field1E lays them out
RangeFields(field1C, field1E, prop3, d) ==
    IF (field1C \div 16) % 4 = 1 /\ (field1E > 64 \/ field1C % 16 > 0)
    THEN <<0, 1, 0, 2>> \o prop3 \o d
         \o <<0, 3, 0, 4, 0, 0, 0, 5>> \o d \o <<0, 6, 0, 7, 0, 0, 0, 8>> \o d
    ELSE d \o d \o d

FixedPointRecords(obj_type, obj_flags) ==
    {Record(obj_type, obj_flags,
            ToBytes(field1C, 2) \o ToBytes(field1E, 2) \o <<0, 0, 0, 32>>
            \o RangeFields(field1C, field1E, prop3, d)
            \o (IF obj_flags = HasLabel THEN LabelBlock(<<65>>) ELSE <<>>)) :
        field1C \in Field1CValues, field1E \in {0, 64, 65},
        prop3 \in Prop3Bytes, d \in Doubles}

InitFixedPoint ==
    /\ conn \in {newConnectorObject(idx, f, 95) :
                    idx \in 0..(CatalogSize - 1), f \in FlagValues}
    /\ ret = Result("newConnectorObject", FALSE, FALSE)

LoadFixedPoint ==
    /\ ret.op = "newConnectorObject"
    /\ \E r \in FixedPointRecords(conn.otype, conn.oflags) :
          conn' = initWithRSRC(conn, r, 0, Len(r))
    /\ ret' = Result("initWithRSRC", FALSE, FALSE)

NextFixedPoint == LoadFixedPoint \/ ParseData \/ EmitParsed

SpecFixedPoint == InitFixedPoint /\ [][NextFixedPoint]_vars

-----------------------------------------------------------------------------
(* The label table of an enum number: filled from an element, written, and
   read back from the bytes written *)

\* labels of entries: "A", "BB" and the empty label
EnumLabels == {<<65>>, <<66, 66>>, <<>>}

\* the most entries of a table
MaxEnumEntries == 2

EnumElements ==
    {[Elem("inline", l, <<>>) EXCEPT
         !.Prop1 = prop1,
         !.Value = [k \in 1..Len(labels) |->
                       [label |-> labels[k], intval1 |-> NoneInt, intval2 |-> NoneInt]]] :
        l \in {NoneB, <<65>>}, prop1 \in {<<>>, <<5>>},
        labels \in SeqsUpTo(EnumLabels, MaxEnumEntries)}

\* UnitUInt8, UnitUInt16, UnitUInt32
InitEnum ==
    /\ conn \in {newConnectorObject(idx, f, t) :
                    idx \in 0..(CatalogSize - 1), f \in FlagValues, t \in {21, 22, 23}}
    /\ ret = Result("newConnectorObject", FALSE, FALSE)

InitWithXMLEnum ==
    /\ ret.op = "newConnectorObject"
    /\ \E e \in EnumElements : conn' = initWithXML(conn, e)
    /\ ret' = Result("initWithXML", FALSE, conn'.exc = "")

\* setData() of the record the object has just written
SetDataWritten ==
    /\ ret.op = "initWithXML" /\ ret.emitted
    /\ conn' = setData(conn, conn.raw_data, FALSE)
    /\ ret' = Result("setData", FALSE, FALSE)

NextEnum == InitWithXMLEnum \/ SetDataWritten \/ ParseData

SpecEnum == InitEnum /\ [][NextEnum]_vars

-----------------------------------------------------------------------------
(* The life cycle of a record together with its export *)

NextLabel == Next \/ ExportXML

SpecLabel == Init /\ [][NextLabel]_vars

-----------------------------------------------------------------------------
(* Walking the clients of the records of a catalog *)

\* the records at catalog index idx: a Void, a Number, a String, Clusters with
\* up to two clients, of which one may be beyond the catalog, Arrays with one
\* dimension
CatalogRecords(idx) ==
    {Record(0, 0, <<>>), Record(3, 0, <<0>>), Record(48, 0, Blob_prop1_expected)}
    \cup {Record(80, 0, <<0, Len(c)>> \o IndexFields(c)) :
             c \in SeqsUpTo({[index |-> i] : i \in 0..CatalogSize}, 2)}
    \cup {Record(64, 0, <<0, 1, 128, 0, 0, 0>> \o ToBytes(i, 2)) :
             i \in 0..(CatalogSize - 1)}

\* the catalog after every record was loaded and parsed
Catalogs ==
    {[k \in 1..CatalogSize |->
         parseData(initWithRSRC(newConnectorObject(k - 1, r[k][3], r[k][4]),
                                r[k], 0, Len(r[k])))] :
        r \in [1..CatalogSize -> UNION {CatalogRecords(i) : i \in 0..(CatalogSize - 1)}]}

InitClients ==
    /\ conn \in {[content |-> c, stack |-> <<>>, exc |-> "", result |-> NoLists] :
                    c \in Catalogs}
    /\ ret = Result("VCTP", FALSE, FALSE)

\* getClientConnectorsByType() is called on a record of the catalog
GetClientConnectorsByType ==
    /\ ret.op = "VCTP"
    /\ \E s \in 1..Len(conn.content) :
          /\ conn' = getClientConnectorsByTypeEnter(conn, conn.content[s])
          /\ ret' = [Result(IF conn'.exc = "" THEN "getClientConnectorsByType"
                            ELSE "raise", FALSE, FALSE) EXCEPT !.out = <<s - 1>>]

VisitClient ==
    /\ ret.op = "getClientConnectorsByType"
    /\ conn.stack[Len(conn.stack)].k <= Len(conn.stack[Len(conn.stack)].out_enum)
    /\ conn' = getClientConnectorsByTypeStep(conn)
    /\ ret' = [ret EXCEPT !.op = IF conn'.exc = "" THEN @ ELSE "raise"]

ReturnLists ==
    /\ ret.op = "getClientConnectorsByType"
    /\ conn.stack[Len(conn.stack)].k > Len(conn.stack[Len(conn.stack)].out_enum)
    /\ conn' = getClientConnectorsByTypeReturn(conn)
    /\ ret' = [ret EXCEPT !.op = IF conn'.stack = <<>> THEN "return" ELSE @]

NextClients == GetClientConnectorsByType \/ VisitClient \/ ReturnLists

SpecClients == InitClients /\ [][NextClients]_vars /\ WF_vars(NextClients)

-----------------------------------------------------------------------------
(* A single-client container whose client index runs over the U2p2 range *)

\* the client indices tried: small ones, and those around the changes of width
U2p2Values ==
    (0..MaxSmallU2p2) \cup {32767, 32768, 65534, 65535, 65536, 74565, 2147483647}

InitU2p2 ==
    /\ conn \in {newConnectorObject(idx, f, 97) :
                    idx \in 0..(CatalogSize - 1), f \in FlagValues}
    /\ ret = Result("newConnectorObject", FALSE, FALSE)

InitWithXMLClient ==
    /\ ret.op = "newConnectorObject"
    /\ \E n \in U2p2Values, l \in {NoneB, <<65>>} :
          conn' = initWithXML(conn, [Elem("inline", l, <<>>) EXCEPT
                      !.Client = <<[index |-> n, flags |-> 0, nested |-> NoNested]>>])
    /\ ret' = Result("initWithXML", FALSE, conn'.exc = "")

NextU2p2 == InitWithXMLClient \/ ParseData \/ UpdateData

SpecU2p2 == InitU2p2 /\ [][NextU2p2]_vars

-----------------------------------------------------------------------------
(* An Array whose client index runs over the U2p2 range *)

\* dimension words: variable size, every bit set, a fixed size without flags
ArrayDimensions ==
    {[flags |-> 128, fixedSize |-> 0], [flags |-> 255, fixedSize |-> 16777215],
     [flags |-> 0, fixedSize |-> 1]}

\* the most dimensions of an Array element
MaxDimensions == 2

InitArray ==
    /\ conn \in {newConnectorObject(idx, f, 64) :
                    idx \in 0..(CatalogSize - 1), f \in FlagValues}
    /\ ret = Result("newConnectorObject", FALSE, FALSE)

InitWithXMLArray ==
    /\ ret.op = "newConnectorObject"
    /\ \E n \in U2p2Values, l \in {NoneB, <<65>>},
          dims \in SeqsUpTo(ArrayDimensions, MaxDimensions) :
          conn' = initWithXML(conn, [Elem("inline", l, <<>>) EXCEPT
                      !.Dimension = dims,
                      !.Client = <<[index |-> n, flags |-> 0, nested |-> NoNested]>>])
    /\ ret' = Result("initWithXML", FALSE, conn'.exc = "")

NextArray == InitWithXMLArray \/ SetDataWritten \/ ParseData

SpecArray == InitArray /\ [][NextArray]_vars

-----------------------------------------------------------------------------
(* Every type tag: construction and the queries on the type *)

\* VI.connectorEnumerate(mainType=...) over a catalog: the catalog indices kept,
\* or the exception a record's mainType() raised
connectorEnumerate(content, main_type) ==
    IF \E k \in 1..Len(content) : mainType(content[k]) = "ValueError"
    THEN [val |-> "ValueError", out |-> <<>>]
    ELSE [val |-> "",
          out |-> LET F[k \in 0..Len(content)] ==
                        IF k = 0 THEN <<>>
                        ELSE IF mainType(content[k]) = main_type
                        THEN Append(F[k - 1], k - 1) ELSE F[k - 1]
                  IN  F[Len(content)]]

InitDispatch ==
    /\ conn \in {newConnectorObject(idx, f, t) :
                    idx \in 0..(CatalogSize - 1), f \in FlagValues, t \in 0..255}
    /\ ret = Result("newConnectorObject", FALSE, FALSE)

MainType ==
    /\ ret.op = "newConnectorObject"
    /\ ret' = [Result("mainType", FALSE, FALSE) EXCEPT !.val = mainType(conn)]
    /\ UNCHANGED conn

IsNumber ==
    /\ ret.op = "newConnectorObject"
    /\ ret' = [Result("isNumber", FALSE, FALSE) EXCEPT !.val = isNumber(conn)]
    /\ UNCHANGED conn

ConnectorEnumerate ==
    /\ ret.op = "newConnectorObject"
    /\ \E main_type \in {"Number", "Blob", "Terminal"} :
          LET r == connectorEnumerate(<<conn>>, main_type)
          IN  ret' = [Result("connectorEnumerate", FALSE, FALSE) EXCEPT
                         !.val = r.val, !.out = r.out]
    /\ UNCHANGED conn

NextDispatch == MainType \/ IsNumber \/ ConnectorEnumerate

SpecDispatch == InitDispatch /\ [][NextDispatch]_vars

-----------------------------------------------------------------------------
(* Properties *)

Sane(self) == checkSanity(self) = [val |-> TRUE, exc |-> ""]

\* C1: every record that was parsed with parseData() and passes checkSanity()
\* is re-serialized by updateData() to the very bytes that were parsed.
C1_ByteRoundTrip ==
    [][(/\ ret.op = "parseData" /\ ret.parsed /\ Sane(conn)
        /\ ret'.op = "updateData" /\ ret'.emitted)
       => conn'.raw_data = conn.raw_data]_vars

\* C2: a record of the generic class (a tag outside the variant table) is
\* written back verbatim by every parseData() followed by updateData(), with or
\* without HasLabel, however often the pair is repeated.
C2_OpaqueVerbatim ==
    [][(/\ ret.op = "parseData" /\ ret.parsed /\ conn.cls = "ConnectorObject"
        /\ ret'.op = "updateData" /\ ret'.emitted)
       => conn'.raw_data = conn.raw_data]_vars

HeaderConsistent(self) ==
    /\ self.raw_data # NoneB
    /\ Len(self.raw_data) >= 4
    /\ IntFromBytes(SubSeq(self.raw_data, 1, 2)) = Len(self.raw_data)
    /\ self.raw_data[3] = self.oflags
    /\ self.raw_data[4] = self.otype
    /\ self.size = Len(self.raw_data)

\* C3 as stated: after every updateData() that returned, the header of raw_data
\* gives its length, oflags and otype, and size is its length.
C3_HeaderAfterUpdateData ==
    (ret.op = "updateData" /\ conn.exc = "") => HeaderConsistent(conn)

\* C3 amended: after every updateData() that rebuilt the record (any call but
\* the early return of avoid_recompute=True over pending raw data), the header
\* of raw_data gives its length, oflags and otype, and size is its length.
C3_HeaderOnEmit ==
    ret.emitted => HeaderConsistent(conn)

C3_Witness ==
    /\ ret.op = "updateData" /\ ret.emitted
    /\ conn.label # NoneB /\ Len(conn.label) > 0
    /\ Len(conn.raw_data) > 4 + LabelSize(conn)

\* C4 as stated: every record built by updateData() has even length.
C4_EvenLength ==
    (ret.op = "updateData" /\ ret.emitted) => Len(conn.raw_data) % 2 = 0

\* C4 amended: updateData() pads the label block (length byte, label, padding)
\* to even size and nothing else, so the record built is the 4-byte header, the
\* payload, and an even number of label bytes.
C4_LabelBlockEven ==
    [][(ret'.op = "updateData" /\ ret'.emitted)
       => /\ Len(conn'.raw_data) >= 4 + Len(prepareRSRCData(conn))
          /\ (Len(conn'.raw_data) - 4 - Len(prepareRSRCData(conn))) % 2 = 0]_vars

C4_Witness ==
    /\ ret.op = "updateData" /\ ret.emitted
    /\ conn.label # NoneB /\ Len(conn.label) = 2
    /\ Len(conn.raw_data) % 2 = 1

\* C5: parsing a record that updateData() built with a label of 1..255 bytes,
\* each CR, LF, TAB or >= 32, finds exactly that label; parsing a record with
\* HasLabel and no acceptable candidate leaves the empty label.
C5_LabelRecoverable ==
    [][(ret'.op = "parseData" /\ ret'.parsed)
       => /\ (/\ ret.op = "updateData" /\ ret.emitted
              /\ conn.label # NoneB /\ Len(conn.label) \in 1..255
              /\ \A k \in 1..Len(conn.label) : LabelByte(conn.label[k]))
             => conn'.label = conn.label
          /\ (/\ (conn'.oflags \div HasLabel) % 2 = 1
              /\ LabelSearch(SubSeq(conn'.raw_data, 5, Len(conn'.raw_data))) = -1)
             => conn'.label = <<>>]_vars

\* C6: raw_data_updated and parsed_data_updated are never both True.
C6_DirtyExclusive ==
    ~(conn.raw_data_updated /\ conn.parsed_data_updated)

\* the bytes of the client index in the record a single-client container built
ClientIndexField(self) ==
    SubSeq(self.raw_data, 5, Len(self.raw_data) - LabelSize(self))

\* C7: the client index n is written in 2 bytes when n <= 0xFFFE and as FF FF
\* plus 4 bytes when n >= 0xFFFF, 0x12345 as FF FF 00 01 23 45; reading the
\* bytes gives n back; and expectedRSRCSize assumes the size that was written.
C7_U2p2Widths ==
    (/\ ret.emitted /\ conn.cls = "ConnectorObjectSingleContainer"
     /\ Len(conn.clients) = 1)
    => LET n == conn.clients[1].index
           w == ClientIndexField(conn)
       IN  /\ n <= 65534 => Len(w) = 2
           /\ n >= 65535 => Len(w) = 6 /\ SubSeq(w, 1, 2) = <<255, 255>>
           /\ n = 74565 => w = <<255, 255, 0, 1, 35, 69>>
           /\ readVariableSizeFieldU2p2(w, 0) = [val |-> n, pos |-> Len(w)]
           /\ ConnectorObjectSingleContainer_expectedRSRCSize(conn) = Len(w)

\* the shape the type table of the specification gives each tag
ClaimedShape(obj_type) ==
    CASE obj_type \in {0, 32, 33, 83, 128} -> "ConnectorObjectVoid"
      [] obj_type \in 1..14 -> "ConnectorObjectVoid"
      [] obj_type \in 21..30 -> "ConnectorObjectNumber"
      [] obj_type \in (48..63) \ {55} -> "ConnectorObjectBlob"
      [] obj_type = 55 -> "ConnectorObjectTag"
      [] obj_type \in 64..79 -> "ConnectorObjectArray"
      [] obj_type = 80 -> "ConnectorObjectCluster"
      [] obj_type = 84 -> "ConnectorObjectMeasureData"
      [] obj_type \in {94, 95} -> "ConnectorObjectFixedPoint"
      [] obj_type \in {97, 98, 101, 131} -> "ConnectorObjectSingleContainer"
      [] obj_type \in {99, 100} -> "ConnectorObjectRepeatedBlock"
      [] obj_type = 112 -> "ConnectorObjectRef"
      [] obj_type = 240 -> "ConnectorObjectFunction"
      [] obj_type = 241 -> "ConnectorObjectTypeDef"
      [] obj_type = 242 -> "ConnectorObjectBlob"
      [] OTHER -> "ConnectorObject"

\* the shape the code gives each tag
DispatchedShape(obj_type) ==
    CASE obj_type = 0 -> "ConnectorObjectVoid"
      [] obj_type \in 1..31 -> "ConnectorObjectNumber"
      [] obj_type \in 32..47 -> "ConnectorObjectVoid"
      [] obj_type \in {48, 50, 51, 63} -> "ConnectorObjectBlob"
      [] obj_type \in {52, 53} -> "ConnectorObjectVoid"
      [] obj_type = 55 -> "ConnectorObjectTag"
      [] obj_type \in 64..79 -> "ConnectorObjectArray"
      [] obj_type = 80 -> "ConnectorObjectCluster"
      [] obj_type = 83 -> "ConnectorObjectVoid"
      [] obj_type = 84 -> "ConnectorObjectMeasureData"
      [] obj_type \in {94, 95} -> "ConnectorObjectFixedPoint"
      [] obj_type = 96 -> "ConnectorObjectBlob"
      [] obj_type \in {97, 98, 101, 131} -> "ConnectorObjectSingleContainer"
      [] obj_type \in {99, 100} -> "ConnectorObjectRepeatedBlock"
      [] obj_type \in 112..127 -> "ConnectorObjectRef"
      [] obj_type = 128 -> "ConnectorObjectVoid"
      [] obj_type = 240 -> "ConnectorObjectFunction"
      [] obj_type = 241 -> "ConnectorObjectTypeDef"
      [] obj_type = 242 -> "ConnectorObjectBlob"
      [] OTHER -> "ConnectorObject"

\* C8 as stated: newConnectorObject gives every tag the shape of the type
\* table: 0x00, 0x20, 0x21, 0x53, 0x80 and 0x01..0x0E no payload, 0x15..0x1E
\* Number, 0x30..0x3F but 0x37 Blob, 0x37 Tag, 0x40..0x4F Array, 0x50 Cluster,
\* 0x54 MeasureData, 0x5E and 0x5F FixedPoint, 0x61, 0x62, 0x65, 0x83 single
\* container, 0x63 and 0x64 repeated block, 0x70 Ref, 0xF0 Function, 0xF1
\* TypeDef, 0xF2 Blob, every other tag the generic record.
C8_DispatchAsClaimed ==
    MethodClass(conn.cls) = ClaimedShape(conn.otype)

\* C8 amended: newConnectorObject gives 0x00 the Void shape; 0x01..0x1F Number;
\* 0x20..0x2F, 0x34, 0x35, 0x53, 0x80 the Void shape; 0x30, 0x32, 0x33, 0x3F,
\* 0x60, 0xF2 Blob; 0x37 Tag; 0x40..0x4F Array; 0x50 Cluster; 0x54 MeasureData;
\* 0x5E, 0x5F FixedPoint; 0x61, 0x62, 0x65, 0x83 single container; 0x63, 0x64
\* repeated block; 0x70..0x7F Ref; 0xF0 Function; 0xF1 TypeDef; every other tag
\* the generic record.
C8_Dispatch ==
    MethodClass(conn.cls) = DispatchedShape(conn.otype)

C8_Witness ==
    /\ ret.op = "mainType" /\ conn.otype = 1
    /\ conn.cls = "ConnectorObjectNumber"

\* C9: for every tag 0..255 mainType() returns a member of the enumeration,
\* Void for tag 0 and else the member of the high nibble, and neither it nor
\* isNumber() nor connectorEnumerate(mainType=...) raises.
C9_MainTypeTotal ==
    /\ ret.op = "mainType"
       => /\ ret.val \in {"Number", "Unit", "Bool", "Blob", "Array", "Cluster",
                          "Block", "Ref", "NumberPointer", "Terminal", "Void"}
          /\ conn.otype = 0 => ret.val = "Void"
    /\ ret.op \in {"isNumber", "connectorEnumerate"} => ret.val # "ValueError"

\* where the nested record of a TypeDef starts in its raw_data
NestedOffset(self) == 4 + 4 + 4 + LabelTableSize(self.labels)

NestedLengthField(self) ==
    IntFromBytes(SubSeq(self.raw_data, NestedOffset(self) + 1, NestedOffset(self) + 2))

\* a TypeDef record that holds its fields, one whole nested record, and no more
TypeDefFramed(self) ==
    /\ self.cls = "ConnectorObjectTypeDef" /\ self.exc = ""
    /\ self.label = NoneB /\ (self.oflags \div HasLabel) % 2 = 0
    /\ Len(self.clients) = 1
    /\ self.clients[1].nested.raw_data # NoneB
    /\ Len(self.clients[1].nested.raw_data) >= 4
    /\ Len(self.raw_data) = NestedOffset(self) + Len(self.clients[1].nested.raw_data)

\* C10: a TypeDef writes the nested record's length field as its byte span plus
\* 4; parsing gives the nested connector index -1 and (length field - 4) bytes
\* of raw_data; a TypeDef with flag1 0, labels ["X"] and a nested Void emits the
\* payload 00 00 00 00 00 00 00 01 01 58 00 08 00 00; and parseData() followed
\* by updateData() reproduces the bytes of a TypeDef whose nested record passes
\* checkSanity(), whatever its variant.
C10_NestedLengthBias ==
    [][/\ (ret'.op = "updateData" /\ ret'.emitted
           /\ conn'.cls = "ConnectorObjectTypeDef" /\ Len(conn'.clients) = 1)
          => NestedLengthField(conn')
             = Len(conn'.raw_data) - NestedOffset(conn') - LabelSize(conn') + 4
       /\ (ret'.op = "parseData" /\ ret'.parsed /\ TypeDefFramed(conn'))
          => /\ conn'.clients[1].index = -1
             /\ conn'.clients[1].nested.index = -1
             /\ Len(conn'.clients[1].nested.raw_data) = NestedLengthField(conn') - 4
       /\ (/\ ret'.emitted /\ TypeDefFramed(conn')
           /\ conn'.flag1 = <<>> /\ conn'.labels = <<<<88>>>>
           /\ conn'.clients[1].nested.cls = "ConnectorObjectVoid"
           /\ conn'.clients[1].nested.label = NoneB)
          => SubSeq(conn'.raw_data, 5, Len(conn'.raw_data))
             = <<0, 0, 0, 0, 0, 0, 0, 1, 1, 88, 0, 8, 0, 0>>
       /\ (/\ ret.op = "parseData" /\ ret.parsed /\ TypeDefFramed(conn)
           /\ Sane(conn.clients[1].nested)
           /\ ret'.op = "updateData" /\ ret'.emitted)
          => conn'.raw_data = conn.raw_data]_vars

-----------------------------------------------------------------------------
(* Function records *)

IsFunction(self) == self.cls = "ConnectorObjectFunction"

\* the clients the count field counts: all but the special last one
CountedClients(self) ==
    IF (self.fflags \div 32768) % 2 = 1
    THEN SubSeq(self.clients, 1, Len(self.clients) - 1) ELSE self.clients

U2p2Width(n) == IF n >= 65535 THEN 6 ELSE 2

RECURSIVE ClientIndexWidths(_)
ClientIndexWidths(clients) ==
    IF Len(clients) = 0 THEN 0
    ELSE U2p2Width(clients[1].index) + ClientIndexWidths(Tail(clients))

RECURSIVE ThrallListWidths(_)
ThrallListWidths(clients) ==
    IF Len(clients) = 0 THEN 0
    ELSE Len(clients[1].thrallSources) + 1 + ThrallListWidths(Tail(clients))

\* the version whose gates updateData applied in the step just taken
EmitVersion ==
    IF ret.val = "avoid_recompute" THEN <<11, 0, 0, 0>> ELSE conn.ver

\* where the has_thrall field ends in a record whose client flags are w bytes wide
ThrallOffset(self, w) ==
    4 + U2p2Width(Len(CountedClients(self)))
    + ClientIndexWidths(CountedClients(self))
    + 4 + w * Len(CountedClients(self)) + 2

\* every source s as the byte s+1, a 0 after each client's list
RECURSIVE ThrallRegion(_)
ThrallRegion(clients) ==
    IF Len(clients) = 0 THEN <<>>
    ELSE [k \in 1..Len(clients[1].thrallSources) |-> clients[1].thrallSources[k] + 1]
         \o <<0>> \o ThrallRegion(Tail(clients))

WithoutSources(clients) ==
    [k \in 1..Len(clients) |-> [clients[k] EXCEPT !.thrallSources = <<>>]]

\* C11: with a file version >= (8,2,0,beta) and hasThrall nonzero, updateData()
\* writes every thrall source s of every counted client as the byte s+1 and a
\* 0 after each client's list, so no source byte is 0; and reading those bytes
\* back, subtracting 1, gives the source lists that were written.
C11_ThrallEncoding ==
    (/\ ret.op = "updateData" /\ ret.emitted /\ IsFunction(conn)
     /\ isGreaterOrEqVersion(conn.ver, 8, 2, 0, StageBeta)
     /\ conn.hasThrall # 0)
    => LET w == IF isGreaterOrEqVersion(EmitVersion, 10, 0, 0, StageAlpha)
                THEN 4 ELSE 2
           off == ThrallOffset(conn, w)
           region == ThrallRegion(CountedClients(conn))
           written == SubSeq(conn.raw_data, off + 1, off + Len(region))
       IN  /\ written = region
           /\ Cardinality({k \in 1..Len(written) : written[k] = 0})
              = Len(CountedClients(conn))
           /\ FunctionThralls(WithoutSources(CountedClients(conn)), conn.raw_data,
                              off, conn.ver).clients
              = CountedClients(conn)

C11_Witness ==
    /\ ret.op = "updateData" /\ ret.emitted /\ IsFunction(conn)
    /\ isGreaterOrEqVersion(conn.ver, 8, 2, 0, StageBeta)
    /\ conn.hasThrall # 0
    /\ \E k \in 1..Len(conn.clients) : conn.clients[k].thrallSources = <<0, 2>>

\* the size of the payload updateData() builds when it applies the gates of ver
FunctionPayloadSize(self, ver) ==
    U2p2Width(Len(CountedClients(self)))
    + ClientIndexWidths(CountedClients(self))
    + 4
    + (IF isGreaterOrEqVersion(ver, 10, 0, 0, StageAlpha) THEN 4 ELSE 2)
      * Len(CountedClients(self))
    + (IF isGreaterOrEqVersion(ver, 8, 0, 0, StageBeta)
       THEN 2 + (IF self.hasThrall # 0
                 THEN ThrallListWidths(CountedClients(self)) ELSE 0)
       ELSE 0)
    + (IF (self.fflags \div 2048) % 2 = 1 THEN 8 ELSE 0)
    + (IF (self.fflags \div 32768) % 2 = 1
       THEN U2p2Width(self.clients[Len(self.clients)].index) ELSE 0)

\* C12 as stated: on every emission path the client flags are u32 exactly when
\* the file version is >= (10,0,0,alpha) and has_thrall is written exactly when
\* it is >= (8,0,0,beta): the record has the size these widths give.
C12_GatesByFileVersion ==
    (ret.op = "updateData" /\ ret.emitted /\ IsFunction(conn))
    => Len(conn.raw_data) = 4 + FunctionPayloadSize(conn, conn.ver) + LabelSize(conn)

\* C12 amended: updateData() applies the gates of the file version;
\* updateData(avoid_recompute=True) applies those of version 11.0.0, u32 client
\* flags and a has_thrall field, whatever the file version.
C12_GatesByEmitVersion ==
    (ret.op = "updateData" /\ ret.emitted /\ IsFunction(conn))
    => Len(conn.raw_data) = 4 + FunctionPayloadSize(conn, EmitVersion) + LabelSize(conn)

C12_Witness ==
    /\ ret.op = "updateData" /\ ret.emitted /\ IsFunction(conn)
    /\ ret.val = "avoid_recompute"
    /\ ~isGreaterOrEqVersion(conn.ver, 8, 0, 0, StageBeta)
    /\ Len(conn.clients) = 2

-----------------------------------------------------------------------------
(* Sanity checks *)

Parsed == ret.op = "parseData" /\ conn.exc = "" /\ conn.raw_data # NoneB

SizeMismatch(self) == Len(self.raw_data) # expectedRSRCSize(self)

ClientBeyondCatalog(self) ==
    \E k \in 1..Len(self.clients) :
        self.clients[k].index # -1 /\ self.clients[k].index >= CatalogSize

\* C13: for every variant, checkSanity() does not pass a parsed record whose
\* raw_data length differs from expectedRSRCSize(), nor one with a non-nested
\* client index at or beyond the catalog size.
C13_SanityRejects ==
    (Parsed /\ (SizeMismatch(conn) \/ ClientBeyondCatalog(conn))) => ~Sane(conn)

\* C14: for every record produced by parsing, an Array with zero dimensions
\* included, checkSanity() returns a boolean without raising.  (checkSanity is
\* an operator of the object, so it leaves fields and raw_data as they are.)
C14_SanityNeverRaises == Parsed => checkSanity(conn).exc = ""

\* Reference records at catalog index idx with the given client indices
RefObject(idx, indices) ==
    [NewObject("ConnectorObjectRef", idx, 0, 112) EXCEPT
        !.clients = [k \in 1..Len(indices) |->
                        [index |-> indices[k], flags |-> 0, nested |-> NoNested]]]

ClientIndexLists ==
    {<<>>} \cup {<<a>> : a \in 0..CatalogSize}
           \cup {<<a, b>> : a \in 0..CatalogSize, b \in 0..CatalogSize}

ClientNotBelow(self) ==
    \E k \in 1..Len(self.clients) : self.clients[k].index >= self.index

\* C15: for every Array and Reference record at a catalog index i >= 0,
\* checkSanity() returns False when some client index is >= i.
C15_ForwardOnly ==
    /\ (Parsed /\ conn.cls = "ConnectorObjectArray" /\ conn.index >= 0
        /\ ClientNotBelow(conn))
       => checkSanity(conn) = [val |-> FALSE, exc |-> ""]
    /\ \A idx \in 0..CatalogSize, indices \in ClientIndexLists, sane \in BOOLEAN :
          ClientNotBelow(RefObject(idx, indices))
          => ~ConnectorObjectRef_checkSanity(RefObject(idx, indices), sane)

-----------------------------------------------------------------------------
(* Loading from and exporting to XML *)

\* C16: for every variant loaded with Format="inline", a child element whose
\* tag the variant does not define makes initWithXML raise.
C16_UnexpectedTagRaises ==
    (ret.op = "initWithXML" /\ ret.val = "unexpected tag") => conn.exc # ""

\* the fields each variant keeps, the label and the clients
RECURSIVE SameRecord(_, _)

SameClient(a, b) ==
    /\ a.index = b.index
    /\ a.flags = b.flags
    /\ ("thrallSources" \in DOMAIN a) = ("thrallSources" \in DOMAIN b)
    /\ "thrallSources" \in DOMAIN a => a.thrallSources = b.thrallSources
    /\ IF a.nested = NoNested \/ b.nested = NoNested THEN a.nested = b.nested
       ELSE SameRecord(a.nested, b.nested)

SameClients(a, b) ==
    /\ Len(a.clients) = Len(b.clients)
    /\ \A k \in 1..Len(a.clients) : SameClient(a.clients[k], b.clients[k])

SameFieldsButPadding(a, b) ==
    /\ a.cls = b.cls /\ a.otype = b.otype
    /\ a.values = b.values /\ a.prop1 = b.prop1 /\ a.prop2 = b.prop2
    /\ a.flag1 = b.flag1 /\ a.labels = b.labels /\ a.dimensions = b.dimensions
    /\ a.clusterFmt = b.clusterFmt /\ a.fflags = b.fflags /\ a.pattern = b.pattern
    /\ a.field6 = b.field6 /\ a.field7 = b.field7 /\ a.hasThrall = b.hasThrall

SameRecord(a, b) ==
    /\ a.label = b.label
    /\ SameFieldsButPadding(a, b)
    /\ a.padding1 = b.padding1
    /\ SameClients(a, b)

\* C17 as stated: initWithXML of an element exported with Format="inline",
\* into a fresh record, yields the same label, fields and client list.
C17_TextRoundTrip ==
    (ret.op = "loadExported" /\ ret.val = "inline")
    => conn.exc = "" /\ SameRecord(ret.out[1], conn)

\* C17 amended: the same, except the padding byte a Number record read after
\* an enum table of odd length (padding1), which the element does not carry
\* and initWithXML sets to empty.
C17_TextRoundTripButPadding ==
    (ret.op = "loadExported" /\ ret.val = "inline")
    => /\ conn.exc = ""
       /\ ret.out[1].label = conn.label
       /\ SameFieldsButPadding(ret.out[1], conn)
       /\ SameClients(ret.out[1], conn)
       /\ conn.padding1 = <<>>

C17_Witness ==
    /\ ret.op = "loadExported" /\ ret.val = "inline"
    /\ conn.cls = "ConnectorObjectTypeDef"
    /\ conn.label # NoneB /\ Len(conn.labels) > 0
    /\ Len(conn.clients) = 1 /\ conn.clients[1].nested.label # NoneB

-----------------------------------------------------------------------------
(* Record headers *)

HeaderRead == ret.op = "parseRSRCDataHeader"

\* C18: for every 4-byte header, whatever its length field, parseRSRCDataHeader
\* consumes exactly 4 bytes and returns the length from bytes 0-1 (big-endian),
\* the flags from byte 2 and the type tag from byte 3, the layout updateData
\* writes.
C18_HeaderFourBytes ==
    HeaderRead =>
        LET pos == ret.out[1]
            h == ret.out[2]
            data == conn.raw_data
        IN  pos + 4 <= Len(data) =>
                /\ h.pos = pos + 4
                /\ h.obj_len = data[pos + 1] * 256 + data[pos + 2]
                /\ h.obj_flags = data[pos + 3]
                /\ h.obj_type = data[pos + 4]

\* where parseRSRCData of a TypeDef finds the header of the nested connector
TypeDefNestedPos(data) ==
    LET h == parseRSRCDataHeader(data, 0)
    IN  TypeDefLabels(data, Adv(data, h.pos, 8),
                      IntFromBytes(Read(data, Adv(data, h.pos, 4), 4))).pos

\* the length field of the header at pos, as the two bytes say
DeclaredLength(data, pos) == IntFromBytes(Read(data, pos, 2))

\* the declared length is smaller than a header, or the bytes it announces
\* (the stored length counts NestedLengthBias bytes more) are not all there
BadDeclaredLength(data, pos) ==
    \/ DeclaredLength(data, pos) < 4
    \/ pos + DeclaredLength(data, pos) - NestedLengthBias > Len(data)

TypeDefParsed ==
    /\ ret.op = "parseData" /\ conn.raw_data # NoneB /\ conn.exc = ""
    /\ conn.cls = "ConnectorObjectTypeDef" /\ Len(conn.clients) = 1

\* C19: a parse that reports no error had a nested connector whose declared
\* length is at least 4 and within the buffer, and the nested connector's size
\* is the length of its raw_data.
C19_StructuralErrors ==
    TypeDefParsed =>
        /\ ~BadDeclaredLength(conn.raw_data, TypeDefNestedPos(conn.raw_data))
        /\ conn.clients[1].nested.size = Len(conn.clients[1].nested.raw_data)

-----------------------------------------------------------------------------
(* The chain of RSRC headers *)

\* the file types of the format
FileTypeIds == {getIdForFileType(FILE_FMT_TYPE[k]) : k \in 2..Len(FILE_FMT_TYPE)}

\* the file holds at pos a whole header with the magic, a file type of the
\* format and the marker, whose next offset is not before pos
SoundHeaderAt(fh, pos) ==
    /\ pos + RSRCHeaderSize <= Len(fh)
    /\ SubSeq(fh, pos + 1, pos + 6) = RSRCMagic
    /\ SubSeq(fh, pos + 9, pos + 12) \in FileTypeIds
    /\ SubSeq(fh, pos + 13, pos + 16) = RSRCMarker
    /\ IntFromBytes(SubSeq(fh, pos + 17, pos + 20)) >= pos

ReadRSRCListEnded == ret.op \in {"return", "raise"}

\* the positions read so far increase strictly; every header read is sound, or
\* the call raised at it; after a return, the headers kept are the ones at the
\* positions read, each points to the position read after it and the last one
\* to its own position
HeaderChain ==
    ret.op \in {"readRSRCList", "return", "raise"} =>
        LET fh == conn.rsrc_fh
            seen == ret.out
            n == Len(ret.out)
        IN  /\ \A k \in 1..(n - 1) : seen[k] < seen[k + 1]
            /\ \A k \in 1..n :
                  ~SoundHeaderAt(fh, seen[k]) => (k = n /\ ret.op = "raise")
            /\ ret.op = "return" =>
                  /\ n >= 1 /\ Len(conn.rsrc_headers) = n
                  /\ \A k \in 1..n :
                        /\ conn.rsrc_headers[k].rsrc_offset
                              = IntFromBytes(SubSeq(fh, seen[k] + 17, seen[k] + 20))
                        /\ conn.rsrc_headers[k].rsrc_offset
                              = IF k < n THEN seen[k + 1] ELSE seen[k]

\* C20: readRSRCList ends on every file; it raises when a header is not whole,
\* when its magic, file type or marker is wrong, or when its next offset is
\* before its own position; when it returns, the headers were read at strictly
\* increasing positions, each once, and the last header's rsrc_offset is its
\* own position.
C20_HeaderChain == []HeaderChain /\ <>ReadRSRCListEnded

\* a file of two chained headers was read to the end
C20_Witness ==
    /\ ret.op = "return" /\ Len(conn.rsrc_headers) = 2
    /\ conn.rsrc_headers[1].rsrc_offset = RSRCHeaderSize
    /\ conn.rsrc_headers[2].rsrc_offset = RSRCHeaderSize

-----------------------------------------------------------------------------
(* File types *)

\* the file types of the format and their extensions: LVIN vi, LVCC ctl, LVDL
\* dlog, CLIB lvclass, LVPJ lvproj, LIBR lvlib, LVAR llb, LMNU mnu, sVCC ctt,
\* sVIN vit, LVXC xctl
FileTypeExtensions ==
    {<<<<76, 86, 73, 78>>, "vi">>, <<<<76, 86, 67, 67>>, "ctl">>,
     <<<<76, 86, 68, 76>>, "dlog">>, <<<<67, 76, 73, 66>>, "lvclass">>,
     <<<<76, 86, 80, 74>>, "lvproj">>, <<<<76, 73, 66, 82>>, "lvlib">>,
     <<<<76, 86, 65, 82>>, "llb">>, <<<<76, 77, 78, 85>>, "mnu">>,
     <<<<115, 86, 67, 67>>, "ctt">>, <<<<115, 86, 73, 78>>, "vit">>,
     <<<<76, 86, 88, 67>>, "xctl">>}

KnownTags == {p[1] : p \in FileTypeExtensions}

\* C21: a member's identifier is recognized as that member; a tag that is none
\* of the 11 is recognized as NONE and fails check_sanity(); the extension of a
\* recognized tag is the one the format gives it, and no two tags share one.
C21_FileTypeMap ==
    /\ (ret.op = "recognizeFileType" /\ ret.out[2] \notin {"", "NONE"})
          => ret.val = ret.out[2]
    /\ ret.op = "recognizeFileType"
          => (ret.val = "NONE" <=> ret.out[1] \notin KnownTags)
    /\ (ret.op = "check_sanity" /\ conn.file_type \notin KnownTags)
          => (~ret.parsed /\ conn.ftype = "NONE")
    /\ (ret.op = "getFileExtByType" /\ ret.val # "NONE")
          => /\ <<getIdForFileType(ret.val), ret.out[1]>> \in FileTypeExtensions
             /\ \A p \in FileTypeExtensions :
                   p[2] = ret.out[1] => p[1] = getIdForFileType(ret.val)

\* the extension of a template control was asked for
C21_Witness ==
    /\ ret.op = "getFileExtByType" /\ ret.val = "TemplateControl"
    /\ ret.out = <<"ctt">>

-----------------------------------------------------------------------------
(* Label discovery *)

\* parseData() just ran parseRSRCData of the generic record on raw_data, whose
\* flags announce a label
GenericLabelParsed ==
    /\ ret.op = "parseData" /\ conn.cls = "ConnectorObject"
    /\ conn.raw_data # NoneB /\ Len(conn.raw_data) >= 4
    /\ (conn.raw_data[3] \div HasLabel) % 2 = 1
    /\ (ret.parsed \/ conn.exc # "")

\* the label in the bytes that ConnectorObject.prepareRSRCData strips from
\* raw_data[4:], empty when it strips nothing
StrippedLabel(self) ==
    LET payload == SubSeq(self.raw_data, 5, Len(self.raw_data))
        kept == ConnectorObject_prepareRSRCData(self)
        tail == SubSeq(payload, Len(kept) + 1, Len(payload))
    IN  IF Len(tail) = 0 THEN <<>> ELSE SubSeq(tail, 2, 1 + tail[1])

\* C22: the label parseRSRCDataFinish finds in the payload of a generic record
\* is the label at the position where ConnectorObject.prepareRSRCData cuts the
\* payload, whatever the object held before.
C22_DiscoveryAgrees ==
    GenericLabelParsed => (conn.exc = "" /\ conn.label = StrippedLabel(conn))

-----------------------------------------------------------------------------
(* The special client of a Function *)

HasSpecial(self) == IsFunction(self) /\ (self.fflags \div 32768) % 2 = 1

\* in the record raw_data of self: the count field counts all clients but the
\* last; the last client has flags 0 and no thrall sources; its index is the
\* U2p2 field that ends the payload, after field6 and field7 when they are there
SpecialClientLast(self) ==
    LET last == self.clients[Len(self.clients)]
        pos == 4 + FunctionPayloadSize(self, self.ver) - U2p2Width(last.index)
    IN  /\ readVariableSizeFieldU2p2(self.raw_data, 4).val = Len(self.clients) - 1
        /\ last.flags = <<>> /\ last.thrallSources = <<>>
        /\ readVariableSizeFieldU2p2(self.raw_data, pos).val = last.index
        /\ readVariableSizeFieldU2p2(self.raw_data, pos).pos
              = Len(self.raw_data) - LabelSize(self)
        /\ (self.fflags \div 2048) % 2 = 1 =>
              /\ BigFromBytes(SubSeq(self.raw_data, pos - 7, pos - 4)) = self.field6
              /\ BigFromBytes(SubSeq(self.raw_data, pos - 3, pos)) = self.field7

\* C23: with fflags & 0x8000, parseData() appends the client read after field6
\* and field7 as the last client, with flags 0 and no thrall sources;
\* updateData() writes count = len(clients) - 1, leaves that client out of the
\* index list, the flag vector and the thrall lists and writes its index last;
\* and the record emitted is the record parsed (so with fflags = 0x8800).
C23_SpecialClient ==
    /\ (ret.op = "parseData" /\ ret.parsed /\ HasSpecial(conn))
          => (Len(conn.clients) >= 1 /\ SpecialClientLast(conn))
    /\ (ret.op = "updateData" /\ HasSpecial(conn))
          => /\ ret.emitted /\ SpecialClientLast(conn)
             /\ Len(conn.raw_data)
                   = 4 + FunctionPayloadSize(conn, conn.ver) + LabelSize(conn)
             /\ conn.raw_data = ret.out[1]

\* a record with fflags 0x8800, two counted clients with thrall sources and a
\* special client whose index is written wide was parsed and emitted
C23_Witness ==
    /\ ret.op = "updateData" /\ ret.emitted /\ IsFunction(conn)
    /\ conn.fflags = 34816 /\ Len(conn.clients) = 3
    /\ conn.clients[3].index = 65535 /\ conn.field7 = <<7>>
    /\ conn.clients[1].thrallSources # <<>>

-----------------------------------------------------------------------------
(* The nested connector of a TypeDef *)

\* parseData() parsed the record, or initWithXML() took the inline element
\* without raising
TypeDefLoaded ==
    /\ conn.cls = "ConnectorObjectTypeDef"
    /\ \/ ret.op = "parseData" /\ ret.parsed
       \/ ret.op = "initWithXML" /\ ret.emitted

\* C24: after a TypeDef is loaded from bytes or from an inline element that is
\* accepted without raising, its client list has exactly one entry, of index -1,
\* that owns a nested connector of index -1.
C24_TypeDefOwnership ==
    TypeDefLoaded =>
        /\ Len(conn.clients) = 1
        /\ conn.clients[1].index = -1
        /\ conn.clients[1].nested # NoNested
        /\ conn.clients[1].nested.index = -1

-----------------------------------------------------------------------------
(* FixedPoint *)

IsFixedPoint(self) == self.cls = "ConnectorObjectFixedPoint"

\* the range that starts at offset pos of raw_data is u16 prop1, u16 prop2,
\* signed 32-bit prop3, double
RangeWithProps(self, pos, rang) ==
    /\ rang.prop1 = <<IntFromBytes(SubSeq(self.raw_data, pos + 1, pos + 2))>>
    /\ rang.prop2 = <<IntFromBytes(SubSeq(self.raw_data, pos + 3, pos + 4))>>
    /\ rang.prop3 = <<SignedFromBytes(SubSeq(self.raw_data, pos + 5, pos + 8))>>
    /\ rang.value = unpack_d(SubSeq(self.raw_data, pos + 9, pos + 16))

\* parseData() went through parseRSRCData of the record, to its end or not
FixedPointParseRan ==
    /\ IsFixedPoint(conn) /\ ret.op = "parseData"
    /\ conn.raw_data # NoneB /\ conn.dataVersion # NoneInt

\* C25: packing the fields unpacked from field1C gives back field1C; parse
\* always yields exactly three ranges; with rangeFormat 1 and field1E > 0x40 or
\* dataVersion > 0 each range is u16 prop1, u16 prop2, signed 32-bit prop3,
\* double; and updateData() of the parsed record gives back the record, for
\* every prop3 of the signed 32-bit range and every rangeFormat in 0..3.
C25_FixedPointEncoding ==
    /\ FixedPointParseRan
          => /\ ConnectorObjectFixedPoint_packField1C(conn)
                   = IntFromBytes(SubSeq(conn.raw_data, 5, 6))
             /\ conn.exc = "" /\ Len(conn.ranges) = 3
             /\ RangeHasProps(conn) =>
                   \A i \in 1..3 : RangeWithProps(conn, 12 + 16 * (i - 1), conn.ranges[i])
    /\ (IsFixedPoint(conn) /\ ret.op = "updateData")
          => (ret.emitted /\ conn.raw_data = ret.out[1])

-----------------------------------------------------------------------------
(* The label table of an enum number *)

\* count entries of (u8 label_len, label bytes)
RECURSIVE EnumTableEntries(_)
EnumTableEntries(values) ==
    IF Len(values) = 0 THEN <<>>
    ELSE <<Len(values[1].label)>> \o values[1].label \o EnumTableEntries(Tail(values))

\* u16 count, the entries, one zero byte exactly when that is odd, u8 prop1
EnumPayload(values, prop1) ==
    LET table == <<Len(values) \div 256, Len(values) % 256>> \o EnumTableEntries(values)
    IN  table \o (IF Len(table) % 2 = 1 THEN <<0>> ELSE <<>>)
        \o <<IF prop1 = <<>> THEN 0 ELSE prop1[1]>>

\* the bytes of raw_data between its header and its label
EnumPayloadOf(self) ==
    SubSeq(self.raw_data, 5, Len(self.raw_data) - LabelSize(self))

\* C26: an enum number (UnitUInt8/16/32) writes u16 count, count entries of
\* (u8 label_len, label bytes), one zero pad byte exactly when the table length
\* is odd, then u8 prop1; and parsing the bytes written gives back the entry
\* labels and prop1 (entries "A", "BB" with prop1 0 are 00 02 01 41 02 42 42 00 00).
C26_EnumTable ==
    [][/\ (ret'.op = "initWithXML" /\ ret'.emitted)
             => EnumPayloadOf(conn') = EnumPayload(conn'.values, conn'.prop1)
       /\ (ret.op = "setData" /\ ret'.op = "parseData")
             => /\ ret'.parsed
                /\ conn'.values = conn.values /\ conn'.prop1 = conn.prop1
                /\ conn'.raw_data = conn.raw_data]_vars

\* entries "A", "BB" and prop1 0 were written as 00 02 01 41 02 42 42 00 00 and
\* read back
C26_Witness ==
    /\ ret.op = "parseData" /\ ret.parsed /\ isEnum(conn)
    /\ Len(conn.values) = 2
    /\ conn.values[1].label = <<65>> /\ conn.values[2].label = <<66, 66>>
    /\ conn.prop1 = <<>>
    /\ EnumPayloadOf(conn) = <<0, 2, 1, 65, 2, 66, 66, 0, 0>>

-----------------------------------------------------------------------------
(* The label and its flag *)

\* HasLabel is set iff there is a label, the label is of at most 255 bytes, and
\* the flags byte of raw_data is oflags
LabelConsistent(self) ==
    /\ ((self.oflags \div HasLabel) % 2 = 1) <=> (self.label # NoneB)
    /\ self.label # NoneB => Len(self.label) <= 255
    /\ self.raw_data # NoneB /\ Len(self.raw_data) >= 3 /\ self.raw_data[3] = self.oflags

ParsedFresh == ret.op = "initWithRSRC" /\ ret'.op = "parseData" /\ conn'.exc = ""

\* C27: after parseData() of a freshly constructed record, after initWithXML(),
\* after updateData() and after exportXMLFinish(), HasLabel is set in oflags iff
\* label is not None, the label is of at most 255 bytes, and raw_data[2] is oflags.
C27_LabelFlagConsistent ==
    [][((ParsedFresh \/ ret'.op \in {"initWithXML", "updateData", "exportXML"})
        /\ conn'.exc = "") => LabelConsistent(conn')]_vars

-----------------------------------------------------------------------------
(* The size a record expects of itself *)

\* C28: a record whose raw_data updateData() has just built from its fields has
\* len(raw_data) == expectedRSRCSize(), whatever its variant and its label.
C28_SizeExpectation ==
    (ret.op = "updateData" /\ ret.emitted /\ ret.val = "")
        => Len(conn.raw_data) = expectedRSRCSize(conn)

-----------------------------------------------------------------------------
(* The client index of an Array *)

IsArray(self) == self.cls = "ConnectorObjectArray"

\* the bytes of raw_data after the dimension words, up to the label
ArrayClientField(self) ==
    SubSeq(self.raw_data, 4 + 2 + 4 * Len(self.dimensions) + 1,
           Len(self.raw_data) - LabelSize(self))

\* C29: an Array writes its client index in the U2p2 encoding that parsing
\* reads and each dimension as (flags << 24) | fixedSize, so for every client
\* index that U2p2 can hold and every dimension word, parsing the bytes written
\* gives back the dimensions and the client index.
C29_ArraySymmetric ==
    [][/\ (IsArray(conn') /\ ret'.op = "initWithXML")
             => /\ ret'.emitted
                /\ ArrayClientField(conn') = U2p2Field(conn'.clients[1].index)
       /\ (IsArray(conn) /\ ret.op = "setData" /\ ret'.op = "parseData")
             => /\ ret'.parsed
                /\ conn'.dimensions = conn.dimensions
                /\ conn'.clients = conn.clients]_vars

-----------------------------------------------------------------------------
(* Walking the clients *)

\* every record of the catalog passes checkSanity()
AllSane == \A k \in 1..Len(conn.content) : Sane(conn.content[k])

\* the indices at most n client links away from the indices in from
RECURSIVE ReachableFrom(_, _, _)
ReachableFrom(content, from, n) ==
    IF n = 0 THEN from
    ELSE ReachableFrom(content,
             from \cup UNION {{content[i + 1].clients[k].index :
                                  k \in 1..Len(content[i + 1].clients)} : i \in from},
             n - 1)

Returned == ret.op = "return"

AllReturned(lists) ==
    {lists.number[k] : k \in 1..Len(lists.number)}
    \cup {lists.path[k] : k \in 1..Len(lists.path)}
    \cup {lists.string[k] : k \in 1..Len(lists.string)}
    \cup {lists.compound[k] : k \in 1..Len(lists.compound)}
    \cup {lists.other[k] : k \in 1..Len(lists.other)}

ReturnedReachable ==
    Returned => AllReturned(conn.result) \subseteq
                    ReachableFrom(conn.content, {ret.out[1]}, Len(conn.content))

\* C30: on a catalog in which every record passes checkSanity(),
\* getClientConnectorsByType() called on any record returns, and every
\* connector it returns is reachable from that record through client links.
C30_TraversalTerminates ==
    /\ (AllSane /\ ret.op = "getClientConnectorsByType") ~> Returned
    /\ []ReturnedReachable

=============================================================================
